---- MODULE Spec2Model ----
(***************************************************************************)
(* Useless GPS: the terrain-sampling analysis and the timed playback of    *)
(* src/script.js, and of its second variant src/unnamed/part_000 (the      *)
(* "full integrated" page; its definitions carry the suffix _full).        *)
(*                                                                         *)
(* Geometry.  A coordinate is a record [lat, lon] of integers: one unit is *)
(* one cell of the grid that toFixed(6) rounds to, and the model's         *)
(* distances take a cell to be one metre of arc.  Distances are the        *)
(* small-extent planar form of the haversine formula; they are exact for   *)
(* two points on a common parallel or meridian, which is what the inputs   *)
(* below use.  A quotient the source keeps as a float is kept as a         *)
(* numerator over a stated denominator, so every comparison is exact.      *)
(***************************************************************************)
EXTENDS Integers, Sequences, FiniteSets, TLC

VARIABLES
  variant,              \* "script" (src/script.js) or "full" (src/unnamed/part_000)
  world,                \* what Nominatim knows and what Overpass returns
  startMarker,          \* script.js:12  <<coordinate>> of the start marker, or None
  destMarker,           \* script.js:12
  lineLayer,            \* script.js:12  <<start, dest>> of the drawn polyline, or None
  featuresLayer,        \* script.js:12  the elements drawn on the features layer
  samplePoints,         \* script.js:13  sequence of [lat, lon, flags, hits]
  rawElements,          \* script.js:14  (rawElementsCache in part_000)
  simulateMarker,       \* script.js:15  id of the run whose marker is on the map, or Null
  simulateTimer,        \* script.js:15  handle of an interval, or Null
  lastTriggeredSample,  \* script.js:16  (lastTriggeredSampleIndex in part_000)
  simulateBtnDisabled,  \* el('simulateBtn').disabled
  timers,               \* the browser's live intervals: handle -> closure of the callback
  handles,              \* number of interval handles handed out so far
  goCalls,              \* the onGo invocations in flight: their frames, oldest first
  goCount,              \* number of onGo invocations so far
  samplesGen,           \* history: how many analysis results have been installed
  lastAnalysis,         \* history: outcome of the onGo that finished last since a reset
  afterReset,           \* history: resetAll has run and onGo has not been invoked since
  probe,                \* harness: the arguments of one call of a function on its own
  analysis              \* harness: the value that call returned

vars == <<variant, world, startMarker, destMarker, lineLayer, featuresLayer, samplePoints,
          rawElements, simulateMarker, simulateTimer, lastTriggeredSample,
          simulateBtnDisabled, timers, handles, goCalls, goCount, samplesGen,
          lastAnalysis, afterReset, probe, analysis>>

\* null / undefined: 0 for a handle or an id, the empty sequence for an object
Null == 0
None == <<>>

-----------------------------------------------------------------------------
(* Configuration *)

MAX_SAMPLES == 12
MIN_SAMPLES == 4
MIN_RADIUS == 120
MAX_RADIUS == 900
MAX_SAMPLES_full == 14
MIN_SAMPLES_full == 4
MAX_RADIUS_full == 1000
MIN_RADIUS_full == 120

\* Math.ceil(km * 2) and meters / 8 in script.js; km * 3 and meters / 10 in part_000
SAMPLES_PER_KM == 2
RADIUS_DIVISOR == 8
SAMPLES_PER_KM_full == 3
RADIUS_DIVISOR_full == 10

\* the initial minDist / nearestDist: larger than every distance of the model
Infinity == 100000000

-----------------------------------------------------------------------------
(* Arithmetic helpers *)

Abs(x) == IF x < 0 THEN -x ELSE x
Min(a, b) == IF a < b THEN a ELSE b
Max(a, b) == IF a > b THEN a ELSE b

\* Math.ceil(p / q) for p >= 0, q > 0
CeilDiv(p, q) == (p + q - 1) \div q

\* Math.round(p / q) for p >= 0, q > 0: floor(p/q + 1/2)
RoundDiv(p, q) == (2 * p + q) \div (2 * q)

\* parseFloat((p / q).toFixed(6)): the nearest grid cell, a tie going away from zero
toFixed6(p, q) == IF p >= 0 THEN RoundDiv(p, q) ELSE -RoundDiv(-p, q)

RECURSIVE SqrtSearch(_, _, _)
SqrtSearch(n, lo, hi) ==
  IF lo >= hi THEN lo
  ELSE LET mid == (lo + hi) \div 2
       IN IF mid * mid >= n THEN SqrtSearch(n, lo, mid) ELSE SqrtSearch(n, mid + 1, hi)

\* the least integer not below the square root of n
CeilSqrt(n, hi) == SqrtSearch(n, 0, hi)

-----------------------------------------------------------------------------
(* Utility helpers *)

\* haversineMeters: R * c, which for points this close is the planar distance
haversineMeters(lat1, lon1, lat2, lon2) ==
  LET dPhi == Abs(lat2 - lat1)
      dLambda == Abs(lon2 - lon1)
  IN IF dPhi = 0 THEN dLambda
     ELSE IF dLambda = 0 THEN dPhi
     ELSE CeilSqrt(dPhi * dPhi + dLambda * dLambda, dPhi + dLambda)

haversineMeters_full(lat1, lon1, lat2, lon2) ==
  LET dLat == Abs(lat2 - lat1)
      dLon == Abs(lon2 - lon1)
  IN IF dLat = 0 THEN dLon
     ELSE IF dLon = 0 THEN dLat
     ELSE CeilSqrt(dLat * dLat + dLon * dLon, dLat + dLon)

\* map.distance(a, b) of Leaflet: the same great-circle distance
mapDistance(a, b) == haversineMeters(a.lat, a.lon, b.lat, b.lon)

-----------------------------------------------------------------------------
(* Sampling heuristics *)

\* a sample count that rounds down
adaptiveSampleCount_floor(meters) ==
  LET samples == (meters * SAMPLES_PER_KM) \div 1000
  IN IF samples < MIN_SAMPLES THEN MIN_SAMPLES
     ELSE IF samples > MAX_SAMPLES THEN MAX_SAMPLES
     ELSE samples

adaptiveSampleCount(meters) ==
  LET samples == CeilDiv(meters * SAMPLES_PER_KM, 1000)
  IN IF samples < MIN_SAMPLES THEN MIN_SAMPLES
     ELSE IF samples > MAX_SAMPLES THEN MAX_SAMPLES
     ELSE samples

\* a radius without its upper limit
adaptiveRadius_uncapped(meters) == Max(MIN_RADIUS * RADIUS_DIVISOR, meters)

\* the radius in units of 1/RADIUS_DIVISOR metre, so that meters / 8 is exact
adaptiveRadius(meters) ==
  Max(MIN_RADIUS * RADIUS_DIVISOR, Min(MAX_RADIUS * RADIUS_DIVISOR, meters))

adaptiveSampleCount_full(meters) ==
  LET samples == CeilDiv(meters * SAMPLES_PER_KM_full, 1000)
  IN IF samples < MIN_SAMPLES_full THEN MIN_SAMPLES_full
     ELSE IF samples > MAX_SAMPLES_full THEN MAX_SAMPLES_full
     ELSE samples

\* the radius in units of 1/RADIUS_DIVISOR_full metre
adaptiveRadius_full(meters) ==
  Max(MIN_RADIUS_full * RADIUS_DIVISOR_full,
      Min(MAX_RADIUS_full * RADIUS_DIVISOR_full, meters))

-----------------------------------------------------------------------------
(* Overpass elements *)

\* t.key of a tags object: "" stands for undefined
Tag(t, key) == IF key \in DOMAIN t THEN t[key] ELSE ""

NoTags == [key \in {} |-> ""]

\* el.tags || {}
tagsOf(el) == IF "tags" \in DOMAIN el THEN el.tags ELSE NoTags

\* the geometry points of an element (script.js:183-185)
geomOf(el) ==
  IF "geometry" \in DOMAIN el /\ Len(el.geometry) > 0
    THEN [k \in 1..Len(el.geometry) |-> [lat |-> el.geometry[k].lat, lon |-> el.geometry[k].lon]]
  ELSE IF "lat" \in DOMAIN el /\ el.lat # 0 /\ "lon" \in DOMAIN el /\ el.lon # 0
    THEN <<[lat |-> el.lat, lon |-> el.lon]>>
  ELSE <<>>

geomOf_full(el) ==
  IF "geometry" \in DOMAIN el /\ Len(el.geometry) > 0
    THEN [k \in 1..Len(el.geometry) |-> [lat |-> el.geometry[k].lat, lon |-> el.geometry[k].lon]]
  ELSE IF "lat" \in DOMAIN el /\ el.lat # 0 /\ "lon" \in DOMAIN el /\ el.lon # 0
    THEN <<[lat |-> el.lat, lon |-> el.lon]>>
  ELSE <<>>

-----------------------------------------------------------------------------
(* Overpass analysis: script.js *)

NoFlags == [key \in {} |-> FALSE]

\* the sample points: linear interpolation at t = i/(samples+1), rounded (script.js:123-129)
samplePts(start, dest, samples) ==
  [i \in 1..samples |->
     [lat |-> toFixed6(start.lat * (samples + 1) + (dest.lat - start.lat) * i, samples + 1),
      lon |-> toFixed6(start.lon * (samples + 1) + (dest.lon - start.lon) * i, samples + 1),
      flags |-> NoFlags,
      hits |-> <<>>]]

\* the global flags object of script.js:166
globalFlags0 ==
  [water |-> FALSE, river |-> FALSE, forest |-> FALSE, park |-> FALSE, highway |-> FALSE,
   railway |-> FALSE, building |-> FALSE, peak |-> FALSE, error |-> FALSE]

\* the per-sample flags object of script.js:169
sampleFlags0 ==
  [water |-> FALSE, river |-> FALSE, forest |-> FALSE, park |-> FALSE, highway |-> FALSE,
   railway |-> FALSE, building |-> FALSE, peak |-> FALSE]

\* script.js:173-180
markGlobal(flags, t) ==
  [flags EXCEPT
     !.water = @ \/ Tag(t, "natural") = "water",
     !.river = @ \/ Tag(t, "waterway") # "",
     !.forest = @ \/ Tag(t, "landuse") = "forest",
     !.park = @ \/ Tag(t, "leisure") = "park",
     !.highway = @ \/ Tag(t, "highway") # "",
     !.railway = @ \/ Tag(t, "railway") # "",
     !.building = @ \/ Tag(t, "building") # "",
     !.peak = @ \/ Tag(t, "natural") = "peak"]

\* script.js:194-201
markSample(flags, t) ==
  [flags EXCEPT
     !.water = @ \/ Tag(t, "natural") = "water",
     !.river = @ \/ Tag(t, "waterway") # "",
     !.forest = @ \/ Tag(t, "landuse") = "forest",
     !.park = @ \/ Tag(t, "leisure") = "park",
     !.highway = @ \/ Tag(t, "highway") # "",
     !.railway = @ \/ Tag(t, "railway") # "",
     !.building = @ \/ Tag(t, "building") # "",
     !.peak = @ \/ Tag(t, "natural") = "peak"]

\* the inner geom.forEach of script.js:188-192
RECURSIVE nearestVertex(_, _, _, _)
nearestVertex(p, geom, k, minDist) ==
  IF k > Len(geom) THEN minDist
  ELSE LET d == haversineMeters(p.lat, p.lon, geom[k].lat, geom[k].lon)
       IN nearestVertex(p, geom, k + 1, IF d < minDist THEN d ELSE minDist)

\* minDist <= radius, the radius being in units of 1/RADIUS_DIVISOR metre (script.js:193)
withinRadius(minDist, radius) == minDist * RADIUS_DIVISOR <= radius

\* the body of pts.forEach for one element (script.js:187-204)
proximity(p, el, t, geom, radius) ==
  LET minDist == nearestVertex(p, geom, 1, Infinity)
  IN IF withinRadius(minDist, radius)
       THEN [p EXCEPT !.flags = markSample(@, t),
                      !.hits = Append(@, [el |-> el, dist |-> minDist])]
       ELSE p

\* elements.forEach (script.js:171-205)
RECURSIVE forEachElement(_, _, _, _, _)
forEachElement(elements, k, flags, pts, radius) ==
  IF k > Len(elements) THEN [flags |-> flags, pts |-> pts]
  ELSE LET el == elements[k]
           t == tagsOf(el)
           geom == geomOf(el)
       IN forEachElement(elements, k + 1, markGlobal(flags, t),
                         [i \in 1..Len(pts) |-> proximity(pts[i], el, t, geom, radius)],
                         radius)

\* the value of the catch branch (script.js:208-211)
analysisError == [flags |-> [error |-> TRUE], samples |-> <<>>, rawElements |-> <<>>]

\* data.elements || []
elementsOf(response) == IF "elements" \in DOMAIN response THEN response.elements ELSE <<>>

\* an analyzePath whose catch block hands back the untouched samples as a success
analyzePath_swallow(start, dest, samples, radius, response) ==
  [flags |-> globalFlags0, samples |-> samplePts(start, dest, samples), rawElements |-> <<>>]

\* analyzePath, given what the awaited fetch and res.json() produce:
\*   kind "networkError": fetch rejects;  "notJson": res.json() rejects;
\*   "nullJson": the payload is the JSON null, so data.elements throws;
\*   "json": an object, with or without an elements array
analyzePath(start, dest, samples, radius, response) ==
  LET pts == samplePts(start, dest, samples)
  IN IF response.kind # "json" THEN analysisError
     ELSE LET elements == elementsOf(response)
              pts0 == [i \in 1..Len(pts) |-> [pts[i] EXCEPT !.flags = sampleFlags0, !.hits = <<>>]]
              done == forEachElement(elements, 1, globalFlags0, pts0, radius)
          IN [flags |-> done.flags, samples |-> done.pts, rawElements |-> elements]

-----------------------------------------------------------------------------
(* Overpass analysis: part_000 (no building category) *)

samplePts_full(start, dest, samples) ==
  [i \in 1..samples |->
     [lat |-> toFixed6(start.lat * (samples + 1) + (dest.lat - start.lat) * i, samples + 1),
      lon |-> toFixed6(start.lon * (samples + 1) + (dest.lon - start.lon) * i, samples + 1),
      flags |-> NoFlags,
      hits |-> <<>>]]

globalFlags0_full ==
  [water |-> FALSE, river |-> FALSE, forest |-> FALSE, park |-> FALSE, highway |-> FALSE,
   railway |-> FALSE, peak |-> FALSE, error |-> FALSE]

sampleFlags0_full ==
  [water |-> FALSE, river |-> FALSE, forest |-> FALSE, park |-> FALSE, highway |-> FALSE,
   railway |-> FALSE, peak |-> FALSE]

markGlobal_full(flags, t) ==
  [flags EXCEPT
     !.water = @ \/ Tag(t, "natural") = "water",
     !.river = @ \/ Tag(t, "waterway") # "",
     !.forest = @ \/ Tag(t, "landuse") = "forest",
     !.park = @ \/ Tag(t, "leisure") = "park",
     !.highway = @ \/ Tag(t, "highway") # "",
     !.railway = @ \/ Tag(t, "railway") # "",
     !.peak = @ \/ Tag(t, "natural") = "peak"]

markSample_full(flags, t) ==
  [flags EXCEPT
     !.water = @ \/ Tag(t, "natural") = "water",
     !.river = @ \/ Tag(t, "waterway") # "",
     !.forest = @ \/ Tag(t, "landuse") = "forest",
     !.park = @ \/ Tag(t, "leisure") = "park",
     !.highway = @ \/ Tag(t, "highway") # "",
     !.railway = @ \/ Tag(t, "railway") # "",
     !.peak = @ \/ Tag(t, "natural") = "peak"]

RECURSIVE nearestVertex_full(_, _, _, _)
nearestVertex_full(p, geom, k, minDist) ==
  IF k > Len(geom) THEN minDist
  ELSE LET d == haversineMeters_full(p.lat, p.lon, geom[k].lat, geom[k].lon)
       IN nearestVertex_full(p, geom, k + 1, IF d < minDist THEN d ELSE minDist)

withinRadius_full(minDist, radius) == minDist * RADIUS_DIVISOR_full <= radius

proximity_full(p, el, t, geom, radius) ==
  LET minDist == nearestVertex_full(p, geom, 1, Infinity)
  IN IF withinRadius_full(minDist, radius)
       THEN [p EXCEPT !.flags = markSample_full(@, t),
                      !.hits = Append(@, [element |-> el, dist |-> minDist])]
       ELSE p

RECURSIVE forEachElement_full(_, _, _, _, _)
forEachElement_full(elements, k, flags, pts, radius) ==
  IF k > Len(elements) THEN [flags |-> flags, pts |-> pts]
  ELSE LET el == elements[k]
           t == tagsOf(el)
           geom == geomOf_full(el)
       IN forEachElement_full(elements, k + 1, markGlobal_full(flags, t),
                              [i \in 1..Len(pts) |-> proximity_full(pts[i], el, t, geom, radius)],
                              radius)

analyzePath_full(start, dest, samples, radius, response) ==
  LET pts == samplePts_full(start, dest, samples)
  IN IF response.kind # "json" THEN analysisError
     ELSE LET elements == elementsOf(response)
              pts0 == [i \in 1..Len(pts) |->
                         [pts[i] EXCEPT !.flags = sampleFlags0_full, !.hits = <<>>]]
              done == forEachElement_full(elements, 1, globalFlags0_full, pts0, radius)
          IN [flags |-> done.flags, samples |-> done.pts, rawElements |-> elements]

-----------------------------------------------------------------------------
(* Messages: script.js *)

DefaultMessage == "Just empty air and useless road."

\* f.key of a flags object: a missing key is undefined, hence falsy
Flag(f, key) == key \in DOMAIN f /\ f[key]

\* a summary that looks at the peak before the water
composeSummaryMessage_peakFirst(flags, meters) ==
  IF Flag(flags, "error") THEN "Overpass grumbled - analysis failed."
  ELSE IF Flag(flags, "peak") THEN "Mountains detected - hope you like climbing."
  ELSE IF Flag(flags, "water") \/ Flag(flags, "river")
    THEN "Route appears watery - you might need a boat. You go swim!"
  ELSE IF Flag(flags, "forest") THEN "There's forest along the way - mind the wildlife."
  ELSE IF Flag(flags, "building") THEN "Urban area ahead - honk responsibly."
  ELSE IF meters < 1000 THEN "Short hop - slippers recommended."
  ELSE "All clearish - still useless, though."

composeSummaryMessage(flags, meters) ==
  IF Flag(flags, "error") THEN "Overpass grumbled - analysis failed."
  ELSE IF Flag(flags, "water") \/ Flag(flags, "river")
    THEN "Route appears watery - you might need a boat. You go swim!"
  ELSE IF Flag(flags, "peak") THEN "Mountains detected - hope you like climbing."
  ELSE IF Flag(flags, "forest") THEN "There's forest along the way - mind the wildlife."
  ELSE IF Flag(flags, "building") THEN "Urban area ahead - honk responsibly."
  ELSE IF meters < 1000 THEN "Short hop - slippers recommended."
  ELSE "All clearish - still useless, though."

\* a sample message without the rule for water and river together
sensibleMessageForSample_noCombined(sample) ==
  IF "flags" \notin DOMAIN sample THEN DefaultMessage
  ELSE LET f == sample.flags
       IN IF Flag(f, "water") THEN "Water nearby - maybe a boat ride?"
          ELSE IF Flag(f, "river") THEN "A river flows here - maybe a bridge?"
          ELSE IF Flag(f, "peak") THEN "Mountains ahead - get ready for the climb."
          ELSE IF Flag(f, "forest") THEN "Forest surrounds you - watch for wildlife."
          ELSE IF Flag(f, "park") THEN "A peaceful park - perfect for a useless picnic."
          ELSE IF Flag(f, "highway") THEN "Busy highway - cross carefully!"
          ELSE IF Flag(f, "railway") THEN "Railway tracks - stay alert and don't get caught."
          ELSE IF Flag(f, "building") THEN "Passing through buildings - urban vibes."
          ELSE DefaultMessage

\* a missing sample is the record with no fields
sensibleMessageForSample(sample) ==
  IF "flags" \notin DOMAIN sample THEN DefaultMessage
  ELSE LET f == sample.flags
       IN IF Flag(f, "water") /\ Flag(f, "river")
            THEN "You're crossing water and river - watch your step or swim!"
          ELSE IF Flag(f, "water") THEN "Water nearby - maybe a boat ride?"
          ELSE IF Flag(f, "river") THEN "A river flows here - maybe a bridge?"
          ELSE IF Flag(f, "peak") THEN "Mountains ahead - get ready for the climb."
          ELSE IF Flag(f, "forest") THEN "Forest surrounds you - watch for wildlife."
          ELSE IF Flag(f, "park") THEN "A peaceful park - perfect for a useless picnic."
          ELSE IF Flag(f, "highway") THEN "Busy highway - cross carefully!"
          ELSE IF Flag(f, "railway") THEN "Railway tracks - stay alert and don't get caught."
          ELSE IF Flag(f, "building") THEN "Passing through buildings - urban vibes."
          ELSE DefaultMessage

CompletionMessage == "You reached the destination! What a useless journey."

-----------------------------------------------------------------------------
(* Simulation: script.js *)

\* the interval of setInterval (script.js:338)
TICK_MS == 25

\* Math.min(30000, Math.max(4000, meters * 2))
durationMsOf(meters) == Min(30000, Max(4000, meters * 2))

\* Math.max(80, Math.round(durationMs / 25))
stepsOf(durationMs) == Max(80, RoundDiv(durationMs, TICK_MS))

\* Math.min(maxMsgs, Math.max(minMsgs, Math.ceil(km / 10)))
msgCountOf(meters) == Min(6, Max(3, CeilDiv(meters, 10000)))

\* scheduled steps that divide the run by msgCount: the last one is the last tick
triggerStepsOf_inclusive(steps, msgCount) ==
  [i \in 1..msgCount |-> (steps * i) \div msgCount]

\* the triggerSteps array (script.js:283-286)
triggerStepsOf(steps, msgCount) ==
  [i \in 1..msgCount |-> (steps * i) \div (msgCount + 1)]

\* the greatest common divisor of two naturals
RECURSIVE GCD(_, _)
GCD(a, b) == IF b = 0 THEN a ELSE GCD(b, a % b)

\* the marker of a run is at start + (dest - start) * step / steps (script.js:290-292,
\* part_000:375-377): the denominator of that fraction in lowest terms, so that
\* den times every position of the run is a whole number of cells
tickDenominator(c) ==
  c.steps \div GCD(GCD(Abs(c.dest.lat - c.start.lat), Abs(c.dest.lon - c.start.lon)), c.steps)

\* an interpolation that is one step ahead
markerAt_ahead(c) ==
  LET den == tickDenominator(c)
      perStep(from, to) == (to - from) \div (c.steps \div den)
  IN [lat |-> c.start.lat * den + perStep(c.start.lat, c.dest.lat) * (c.step + 1),
      lon |-> c.start.lon * den + perStep(c.start.lon, c.dest.lon) * (c.step + 1)]

\* where the callback puts the marker: t = step / steps, curLat = start.lat +
\* (dest.lat - start.lat) * t, curLon likewise (script.js:290-293, part_000:375-378),
\* in units of 1/den cell
markerAt(c) ==
  LET den == tickDenominator(c)
      perStep(from, to) == (to - from) \div (c.steps \div den)
  IN [lat |-> c.start.lat * den + perStep(c.start.lat, c.dest.lat) * c.step,
      lon |-> c.start.lon * den + perStep(c.start.lon, c.dest.lon) * c.step]

\* the samplePoints.forEach of script.js:297-300, all distances in units of 1/den metre:
\* the position at t = step/steps is <<curLat, curLon>> / steps
RECURSIVE nearestSample(_, _, _, _, _, _)
nearestSample(pts, k, curLat, curLon, den, best) ==
  IF k > Len(pts) THEN best
  ELSE LET d == haversineMeters(curLat, curLon, pts[k].lat * den, pts[k].lon * den)
       IN nearestSample(pts, k + 1, curLat, curLon, den,
                        IF d < best.dist THEN [idx |-> k - 1, dist |-> d] ELSE best)

\* a clearInterval that leaves the interval running
clearInterval_leak(live, handle) == live

\* clearInterval(handle): the browser drops the interval, if it is live
clearInterval(live, handle) == [h \in DOMAIN live \ {handle} |-> live[h]]

\* a completion test that fires one step early
finished_early(step, steps) == step >= steps

\* a completion test that lets one more tick run
finished_late(step, steps) == step > steps + 1

\* the completion test after step++ (script.js:333)
finished(step, steps) == step > steps

\* the proximity condition of script.js:305-309; near.dist is in units of 1/den metre
proximityTrigger(near, last, triggerRadius, den) ==
  /\ near.idx # last
  /\ near.idx # -1
  /\ near.dist * RADIUS_DIVISOR <= triggerRadius * den

\* the else-if condition of script.js:316
scheduledTrigger(c) ==
  /\ c.nextTriggerIndex < Len(c.triggerSteps)
  /\ c.step = c.triggerSteps[c.nextTriggerIndex + 1]

\* a closure that resumes at the step the previous run had reached
newRun_resume(line) ==
  LET start == line[1]
      dest == line[2]
      meters == mapDistance(start, dest)
      steps == stepsOf(durationMsOf(meters))
      before == IF simulateTimer \in DOMAIN timers THEN timers[simulateTimer].step ELSE 0
  IN [start |-> start, dest |-> dest, meters |-> meters, steps |-> steps,
      step |-> IF before <= steps THEN before ELSE 0,
      triggerSteps |-> triggerStepsOf(steps, msgCountOf(meters)), nextTriggerIndex |-> 0,
      intervalMs |-> TICK_MS,
      gen |-> samplesGen, ticks |-> 0, fired |-> {}, lastFire |-> -1, lastProximity |-> -1]

\* the closure of the interval callback that onSimulate creates (script.js:270-287);
\* gen, ticks, fired, lastFire and lastProximity are history: the analysis the run
\* started on, how often the callback has run, the samples it has fired (each with
\* the analysis it came from), the step of its latest message, and the sample its
\* proximity trigger fired last (-1 before the first)
newRun(line) ==
  LET start == line[1]
      dest == line[2]
      meters == mapDistance(start, dest)
      steps == stepsOf(durationMsOf(meters))
  IN [start |-> start, dest |-> dest, meters |-> meters, steps |-> steps, step |-> 0,
      triggerSteps |-> triggerStepsOf(steps, msgCountOf(meters)), nextTriggerIndex |-> 0,
      intervalMs |-> TICK_MS,
      gen |-> samplesGen, ticks |-> 0, fired |-> {}, lastFire |-> -1, lastProximity |-> -1]

-----------------------------------------------------------------------------
(* Inputs *)

\* how many times onGo is invoked (where the routes are short, and where they are
\* long), and how many playbacks start
MaxGo == 2
MaxGoFar == 1
MaxRuns == 2

\* the texts of the two input fields, trimmed
StartNames == {"", "A", "B"}
DestNames == {"", "A", "B"}

\* a lake beside the second sample of the 2 km route A-B
Lake == [type |-> "way", tags |-> [natural |-> "water"],
         geometry |-> <<[lat |-> 50, lon |-> 900], [lat |-> 50, lon |-> 1000]>>]

\* a lake and a peak along the 16 km route A-B
FarLake == [type |-> "way", tags |-> [natural |-> "water"],
            geometry |-> <<[lat |-> 50, lon |-> 8000], [lat |-> 50, lon |-> 8200]>>]
FarPeak == [type |-> "node", tags |-> [natural |-> "peak"], lat |-> 50, lon |-> 12000]

\* two towns 2 km apart, and two towns 16 km apart (the budget of onGo calls is the
\* smaller one wherever the route is long)
NearWorld ==
  [name |-> "near",
   places |-> [A |-> [lat |-> 50, lon |-> 100], B |-> [lat |-> 50, lon |-> 2100]],
   elements |-> <<Lake>>]
FarWorld ==
  [name |-> "far",
   places |-> [A |-> [lat |-> 50, lon |-> 100], B |-> [lat |-> 50, lon |-> 16100]],
   elements |-> <<FarLake, FarPeak>>]

\* a forest beside the second sample of the 76 km route A-B
LongForest == [type |-> "way", tags |-> [landuse |-> "forest"],
               geometry |-> <<[lat |-> 50, lon |-> 11800]>>]

\* two towns 76 km apart
LongWorld ==
  [name |-> "long",
   places |-> [A |-> [lat |-> 50, lon |-> 100], B |-> [lat |-> 50, lon |-> 76100]],
   elements |-> <<LongForest>>]

\* a forest at the first sample of the 3600 km route A-B of script.js, another at
\* the first sample of the same route of part_000
WideForest == [type |-> "way", tags |-> [landuse |-> "forest"],
               geometry |-> <<[lat |-> 50, lon |-> 277000]>>]
WideGrove == [type |-> "way", tags |-> [landuse |-> "forest"],
              geometry |-> <<[lat |-> 50, lon |-> 240100]>>]

\* two cities 3600 km apart
WideWorld ==
  [name |-> "wide",
   places |-> [A |-> [lat |-> 50, lon |-> 100], B |-> [lat |-> 50, lon |-> 3600100]],
   elements |-> <<WideForest, WideGrove>>]

goBudget == IF world.name = "near" THEN MaxGo ELSE MaxGoFar

\* the destinations asked for from a start: A only as the way back from B, and only
\* where the route is short
destNames(startName) ==
  IF world.name = "near" /\ startName = "B" THEN DestNames ELSE DestNames \ {"A"}

\* what the awaited fetch of analyzePath can produce: a network error, or the
\* elements around the route
ResponseKinds == {"networkError", "json"}

responseOf(kind) ==
  IF kind = "json" THEN [kind |-> "json", elements |-> world.elements]
  ELSE [kind |-> kind]

-----------------------------------------------------------------------------
(* Main flow: script.js *)

\* the i-th frame leaves goCalls: the invocation has returned
Return(frames, i) == [k \in 1..(Len(frames) - 1) |-> IF k < i THEN frames[k] ELSE frames[k + 1]]

\* the toast of the input check of onGo (script.js:36), "" when it passes
onGoCheck(startName, destName) ==
  IF startName = "" \/ destName = "" THEN "Enter start & destination" ELSE ""

\* onGo up to its first await (script.js:33-40)
OnGo(startName, destName) ==
  /\ variant = "script"
  /\ goCount < goBudget
  /\ goCount' = goCount + 1
  /\ afterReset' = FALSE
  /\ goCalls' = IF onGoCheck(startName, destName) # "" THEN goCalls
                ELSE Append(goCalls, [pc |-> "geocodeStart", startName |-> startName,
                                      destName |-> destName])
  /\ UNCHANGED <<variant, world, startMarker, destMarker, lineLayer, featuresLayer, samplePoints,
                 rawElements, simulateMarker, simulateTimer, lastTriggeredSample,
                 simulateBtnDisabled, timers, handles, samplesGen, lastAnalysis,
                 probe, analysis>>

\* geocode (script.js:86-92) as the service answers it: "throw" is a failed fetch,
\* "empty" an empty result array, "found" the first hit
GeocodeAnswers(name) ==
  {"throw", "empty"} \cup (IF name \in DOMAIN world.places THEN {"found"} ELSE {})

\* a geocode that answers an empty result with a place of its own
geocode_fallback(name, answer) ==
  IF answer = "found" THEN <<world.places[name]>>
  ELSE IF answer = "empty" THEN <<[lat |-> 50, lon |-> 100]>>
  ELSE None

geocode(name, answer) == IF answer = "found" THEN <<world.places[name]>> ELSE None

\* the first geocode resolves; onGo runs to its second await (script.js:40-41), or
\* to the catch block (script.js:79-82)
GeocodeStart(i, answer) ==
  /\ variant = "script"
  /\ i \in DOMAIN goCalls
  /\ goCalls[i].pc = "geocodeStart"
  /\ answer \in GeocodeAnswers(goCalls[i].startName)
  /\ goCalls' = IF answer = "throw" THEN Return(goCalls, i)
                ELSE [goCalls EXCEPT ![i] =
                        [pc |-> "geocodeDest", destName |-> goCalls[i].destName,
                         start |-> geocode(goCalls[i].startName, answer)]]
  /\ UNCHANGED <<variant, world, afterReset, startMarker, destMarker, lineLayer, featuresLayer,
                 samplePoints, rawElements, simulateMarker, simulateTimer, lastTriggeredSample,
                 simulateBtnDisabled, timers, handles, goCount, samplesGen, lastAnalysis,
                 probe, analysis>>

\* the frame of onGo at the fetch that analyzePath awaits (script.js:46-59)
analyzeFrame(start, dest) ==
  LET meters == mapDistance(start, dest)
  IN [pc |-> "analyze", start |-> start, dest |-> dest, meters |-> meters,
      samples |-> adaptiveSampleCount(meters), radius |-> adaptiveRadius(meters)]

\* the second geocode resolves; onGo plots the route (script.js:95-105) and runs to
\* the fetch that analyzePath awaits (script.js:41-59)
GeocodeDest(i, answer) ==
  /\ variant = "script"
  /\ i \in DOMAIN goCalls
  /\ goCalls[i].pc = "geocodeDest"
  /\ answer \in GeocodeAnswers(goCalls[i].destName)
  /\ LET start == goCalls[i].start
         dest == geocode(goCalls[i].destName, answer)
     IN IF answer = "throw" \/ start = None \/ dest = None
          THEN /\ goCalls' = Return(goCalls, i)
               /\ UNCHANGED <<startMarker, destMarker, lineLayer, featuresLayer>>
          ELSE /\ startMarker' = start
               /\ destMarker' = dest
               /\ lineLayer' = <<start[1], dest[1]>>
               /\ featuresLayer' = <<>>
               /\ goCalls' = [goCalls EXCEPT ![i] = analyzeFrame(start[1], dest[1])]
  /\ UNCHANGED <<variant, world, afterReset, samplePoints, rawElements, simulateMarker,
                 simulateTimer, lastTriggeredSample, simulateBtnDisabled, timers, handles, goCount,
                 samplesGen, lastAnalysis, probe, analysis>>

\* the elements drawDetectedFeatures puts on the features layer (script.js:215-245)
drawDetectedFeatures(elements) ==
  LET drawn(el) ==
        \/ el.type = "way" /\ "geometry" \in DOMAIN el /\ Len(el.geometry) > 0
        \/ el.type = "node" /\ "tags" \in DOMAIN el /\ Tag(el.tags, "natural") = "peak"
  IN SelectSeq(elements, drawn)

\* the awaited analysis resolves; onGo runs to its end (script.js:59-77)
AnalysisDone(i, kind) ==
  /\ variant = "script"
  /\ i \in DOMAIN goCalls
  /\ goCalls[i].pc = "analyze"
  /\ LET f == goCalls[i]
         result == analyzePath(f.start, f.dest, f.samples, f.radius, responseOf(kind))
     IN IF Flag(result.flags, "error")
          THEN /\ simulateBtnDisabled' = TRUE
               /\ lastAnalysis' = "error"
               /\ UNCHANGED <<rawElements, samplePoints, featuresLayer,
                              lastTriggeredSample, samplesGen>>
          ELSE /\ rawElements' = result.rawElements
               /\ samplePoints' = result.samples
               /\ featuresLayer' = drawDetectedFeatures(result.rawElements)
               /\ simulateBtnDisabled' = FALSE
               /\ lastTriggeredSample' = -1
               /\ samplesGen' = samplesGen + 1
               /\ lastAnalysis' = "ok"
  /\ goCalls' = Return(goCalls, i)
  /\ UNCHANGED <<variant, world, afterReset, startMarker, destMarker, lineLayer, simulateMarker,
                 simulateTimer, timers, handles, goCount, probe, analysis>>

-----------------------------------------------------------------------------
(* Simulation and reset: script.js *)

\* precondition checks that forget the samples
onSimulateCheck_lineOnly ==
  IF lineLayer = None THEN "Draw a line first." ELSE ""

\* the toast of the precondition checks of onSimulate (script.js:263-264), "" when
\* both pass
onSimulateCheck ==
  IF lineLayer = None THEN "Draw a line first."
  ELSE IF Len(samplePoints) = 0 THEN "No samples - run analysis first."
  ELSE ""

\* onSimulate (script.js:262-289): two precondition checks, then the previous marker
\* and interval are dropped and a new interval is started
OnSimulate ==
  /\ variant = "script"
  /\ IF onSimulateCheck # ""
       THEN UNCHANGED <<simulateMarker, simulateTimer, lastTriggeredSample, timers, handles>>
       ELSE /\ handles < MaxRuns
            /\ handles' = handles + 1
            /\ simulateMarker' = handles'
            /\ timers' = clearInterval(timers, simulateTimer) @@ (handles' :> newRun(lineLayer))
            /\ simulateTimer' = handles'
            /\ lastTriggeredSample' = -1
  /\ UNCHANGED <<variant, world, afterReset, startMarker, destMarker, lineLayer, featuresLayer,
                 samplePoints, rawElements, simulateBtnDisabled, goCalls, goCount, samplesGen,
                 lastAnalysis, probe, analysis>>

\* what one call of the interval callback of handle h does in the current state
\* (script.js:289-337): the trigger it takes, the message it shows, the closure it
\* leaves, and whether it is the last one
tickEffect(h) ==
  LET c == timers[h]
      den == tickDenominator(c)
      curLat == markerAt(c).lat
      curLon == markerAt(c).lon
      near == nearestSample(samplePoints, 1, curLat, curLon, den,
                            [idx |-> -1, dist |-> Infinity])
      triggerRadius == adaptiveRadius(c.meters)
      byProximity == proximityTrigger(near, lastTriggeredSample, triggerRadius, den)
      byStep == ~byProximity /\ scheduledTrigger(c)
      fires == byProximity \/ byStep
      who == <<samplesGen, near.idx>>
  IN [trigger |-> IF byProximity THEN "proximity" ELSE IF byStep THEN "scheduled" ELSE "none",
      idx |-> IF fires THEN near.idx ELSE -1,
      msg |-> IF fires
                THEN IF near.idx # -1 THEN sensibleMessageForSample(samplePoints[near.idx + 1])
                     ELSE "Enjoy your useless journey!"
                ELSE "",
      refire |-> fires /\ who \in c.fired,
      sinceLast |-> IF fires /\ c.lastFire # -1 THEN c.step - c.lastFire ELSE -1,
      completes |-> finished(c.step + 1, c.steps),
      final |-> IF finished(c.step + 1, c.steps) THEN CompletionMessage ELSE "",
      closure |-> [c EXCEPT !.step = @ + 1,
                            !.nextTriggerIndex = IF byStep THEN @ + 1 ELSE @,
                            !.ticks = @ + 1,
                            !.fired = IF fires /\ near.idx # -1 THEN @ \cup {who} ELSE @,
                            !.lastFire = IF fires THEN c.step ELSE @,
                            !.lastProximity = IF byProximity THEN near.idx ELSE @]]

\* one call of the interval callback of handle h (script.js:289-338)
Tick(h) ==
  /\ variant = "script"
  /\ h \in DOMAIN timers
  /\ IF simulateMarker = Null
       THEN \* simulateMarker.setLatLng throws: the callback ends there
            UNCHANGED <<lastTriggeredSample, timers, simulateTimer>>
       ELSE LET e == tickEffect(h)
                stepped == [timers EXCEPT ![h] = e.closure]
            IN /\ lastTriggeredSample' = IF e.trigger = "proximity" THEN e.idx
                                         ELSE lastTriggeredSample
               /\ timers' = IF e.completes THEN clearInterval(stepped, simulateTimer)
                            ELSE stepped
               /\ simulateTimer' = IF e.completes THEN Null ELSE simulateTimer
  /\ UNCHANGED <<variant, world, afterReset, startMarker, destMarker, lineLayer, featuresLayer,
                 samplePoints, rawElements, simulateMarker, simulateBtnDisabled, handles, goCalls,
                 goCount, samplesGen, lastAnalysis, probe, analysis>>

\* resetAll (script.js:375-390)
ResetAll ==
  /\ variant = "script"
  /\ startMarker' = None
  /\ destMarker' = None
  /\ lineLayer' = None
  /\ featuresLayer' = <<>>
  /\ samplePoints' = <<>>
  /\ rawElements' = <<>>
  /\ simulateMarker' = Null
  /\ timers' = clearInterval(timers, simulateTimer)
  /\ lastTriggeredSample' = -1
  /\ simulateBtnDisabled' = TRUE
  /\ lastAnalysis' = "none"
  /\ afterReset' = TRUE
  /\ UNCHANGED <<variant, world, simulateTimer, handles, goCalls, goCount, samplesGen,
                 probe, analysis>>

-----------------------------------------------------------------------------
(* Main flow: part_000 *)

\* the toast of the input check of onGo (part_000:47), "" when it passes
onGoCheck_full(startName, destName) ==
  IF startName = "" \/ destName = "" THEN "Please enter start and destination." ELSE ""

\* onGo up to its first await (part_000:43-51)
OnGo_full(startName, destName) ==
  /\ variant = "full"
  /\ goCount < goBudget
  /\ goCount' = goCount + 1
  /\ afterReset' = FALSE
  /\ goCalls' = IF onGoCheck_full(startName, destName) # "" THEN goCalls
                ELSE Append(goCalls, [pc |-> "geocodeStart", startName |-> startName,
                                      destName |-> destName])
  /\ UNCHANGED <<variant, world, startMarker, destMarker, lineLayer, featuresLayer, samplePoints,
                 rawElements, simulateMarker, simulateTimer, lastTriggeredSample,
                 simulateBtnDisabled, timers, handles, samplesGen, lastAnalysis,
                 probe, analysis>>

\* the first geocode resolves; onGo runs to its second await (part_000:51-52), or to
\* the catch block (part_000:91-94)
GeocodeStart_full(i, answer) ==
  /\ variant = "full"
  /\ i \in DOMAIN goCalls
  /\ goCalls[i].pc = "geocodeStart"
  /\ answer \in GeocodeAnswers(goCalls[i].startName)
  /\ goCalls' = IF answer = "throw" THEN Return(goCalls, i)
                ELSE [goCalls EXCEPT ![i] =
                        [pc |-> "geocodeDest", destName |-> goCalls[i].destName,
                         start |-> geocode(goCalls[i].startName, answer)]]
  /\ UNCHANGED <<variant, world, afterReset, startMarker, destMarker, lineLayer, featuresLayer,
                 samplePoints, rawElements, simulateMarker, simulateTimer, lastTriggeredSample,
                 simulateBtnDisabled, timers, handles, goCount, samplesGen, lastAnalysis,
                 probe, analysis>>

\* the frame of onGo at the fetch that analyzePath awaits (part_000:57-68)
analyzeFrame_full(start, dest) ==
  LET meters == mapDistance(start, dest)
  IN [pc |-> "analyze", start |-> start, dest |-> dest, meters |-> meters,
      samples |-> adaptiveSampleCount_full(meters), radius |-> adaptiveRadius_full(meters)]

\* the second geocode resolves; onGo plots the route and runs to the fetch that
\* analyzePath awaits (part_000:52-68)
GeocodeDest_full(i, answer) ==
  /\ variant = "full"
  /\ i \in DOMAIN goCalls
  /\ goCalls[i].pc = "geocodeDest"
  /\ answer \in GeocodeAnswers(goCalls[i].destName)
  /\ LET start == goCalls[i].start
         dest == geocode(goCalls[i].destName, answer)
     IN IF answer = "throw" \/ start = None \/ dest = None
          THEN /\ goCalls' = Return(goCalls, i)
               /\ UNCHANGED <<startMarker, destMarker, lineLayer, featuresLayer>>
          ELSE /\ startMarker' = start
               /\ destMarker' = dest
               /\ lineLayer' = <<start[1], dest[1]>>
               /\ featuresLayer' = <<>>
               /\ goCalls' = [goCalls EXCEPT ![i] = analyzeFrame_full(start[1], dest[1])]
  /\ UNCHANGED <<variant, world, afterReset, samplePoints, rawElements, simulateMarker,
                 simulateTimer, lastTriggeredSample, simulateBtnDisabled, timers, handles, goCount,
                 samplesGen, lastAnalysis, probe, analysis>>

\* the elements drawDetectedFeatures puts on the features layer (part_000:233-280)
drawDetectedFeatures_full(elements) ==
  LET drawn(el) ==
        \/ el.type = "way" /\ "geometry" \in DOMAIN el /\ Len(el.geometry) > 0
        \/ el.type = "node" /\ "tags" \in DOMAIN el /\ Tag(el.tags, "natural") = "peak"
  IN SelectSeq(elements, drawn)

\* the awaited analysis resolves; onGo runs to its end (part_000:69-90)
AnalysisDone_full(i, kind) ==
  /\ variant = "full"
  /\ i \in DOMAIN goCalls
  /\ goCalls[i].pc = "analyze"
  /\ LET f == goCalls[i]
         result == analyzePath_full(f.start, f.dest, f.samples, f.radius,
                                    responseOf(kind))
     IN IF Flag(result.flags, "error")
          THEN /\ rawElements' = <<>>
               /\ samplePoints' = <<>>
               /\ simulateBtnDisabled' = TRUE
               /\ lastAnalysis' = "error"
               /\ UNCHANGED <<featuresLayer, lastTriggeredSample, samplesGen>>
          ELSE /\ rawElements' = result.rawElements
               /\ samplePoints' = result.samples
               /\ featuresLayer' = drawDetectedFeatures_full(result.rawElements)
               /\ simulateBtnDisabled' = FALSE
               /\ lastTriggeredSample' = -1
               /\ samplesGen' = samplesGen + 1
               /\ lastAnalysis' = "ok"
  /\ goCalls' = Return(goCalls, i)
  /\ UNCHANGED <<variant, world, afterReset, startMarker, destMarker, lineLayer, simulateMarker,
                 simulateTimer, timers, handles, goCount, probe, analysis>>

-----------------------------------------------------------------------------
(* Simulation and reset: part_000 *)

\* Math.max(80, Math.min(1000, Math.round(durationMs / 30)))
stepsOf_full(durationMs) == Max(80, Min(1000, RoundDiv(durationMs, 30)))

\* the interval of setInterval: Math.max(10, Math.round(durationMs / steps))
intervalOf_full(durationMs, steps) == Max(10, RoundDiv(durationMs, steps))

\* the samplePoints.forEach of part_000:383-386, distances in units of 1/den metre
RECURSIVE nearestSample_full(_, _, _, _, _, _)
nearestSample_full(pts, k, curLat, curLng, den, best) ==
  IF k > Len(pts) THEN best
  ELSE LET d == haversineMeters_full(curLat, curLng, pts[k].lat * den, pts[k].lon * den)
       IN nearestSample_full(pts, k + 1, curLat, curLng, den,
                             IF d < best.dist THEN [idx |-> k - 1, dist |-> d] ELSE best)

\* the completion test after step++ (part_000:411)
finished_full(step, steps) == step > steps

\* the outer condition of part_000:388
proximityTrigger_full(near, last, triggerRadius, den) ==
  /\ near.idx # -1
  /\ near.idx # last
  /\ near.dist * RADIUS_DIVISOR_full <= triggerRadius * den

\* types.join(", ")
RECURSIVE join(_)
join(types) ==
  IF Len(types) = 0 THEN ""
  ELSE IF Len(types) = 1 THEN types[1]
  ELSE types[1] \o ", " \o join(Tail(types))

\* the message composed for a sample with hits (part_000:391-401)
encounteredMessage(sample) ==
  LET f == sample.flags
      types == (IF Flag(f, "water") THEN <<"water">> ELSE <<>>)
               \o (IF Flag(f, "river") THEN <<"river">> ELSE <<>>)
               \o (IF Flag(f, "forest") THEN <<"forest">> ELSE <<>>)
               \o (IF Flag(f, "park") THEN <<"park">> ELSE <<>>)
               \o (IF Flag(f, "highway") THEN <<"road">> ELSE <<>>)
               \o (IF Flag(f, "railway") THEN <<"rail">> ELSE <<>>)
               \o (IF Flag(f, "peak") THEN <<"peak">> ELSE <<>>)
  IN "Encountered: " \o join(types)

\* the final messages, one of which Math.random picks (part_000:414-415)
finalExtras ==
  {"Congrats, you survived the line.", "This was a very direct journey.",
   "Next time, take a bus."}

\* the closure of the interval callback that onSimulate creates (part_000:363-374);
\* gen, ticks, fired and lastFire are history, as in script.js
newRun_full(line) ==
  LET start == line[1]
      dest == line[2]
      meters == mapDistance(start, dest)
      durationMs == durationMsOf(meters)
      steps == stepsOf_full(durationMs)
  IN [start |-> start, dest |-> dest, meters |-> meters, steps |-> steps, step |-> 0,
      intervalMs |-> intervalOf_full(durationMs, steps),
      gen |-> samplesGen, ticks |-> 0, fired |-> {}, lastFire |-> -1, lastProximity |-> -1]

\* the toast of the precondition checks of onSimulate (part_000:356-357), "" when
\* both pass
onSimulateCheck_full ==
  IF lineLayer = None THEN "Draw a line first (Go Straight)."
  ELSE IF Len(samplePoints) = 0 THEN "No sample data - run analysis first."
  ELSE ""

\* onSimulate (part_000:355-374)
OnSimulate_full ==
  /\ variant = "full"
  /\ IF onSimulateCheck_full # ""
       THEN UNCHANGED <<simulateMarker, simulateTimer, lastTriggeredSample, timers, handles>>
       ELSE /\ handles < MaxRuns
            /\ handles' = handles + 1
            /\ simulateMarker' = handles'
            /\ timers' = clearInterval(timers, simulateTimer)
                           @@ (handles' :> newRun_full(lineLayer))
            /\ simulateTimer' = handles'
            /\ lastTriggeredSample' = -1
  /\ UNCHANGED <<variant, world, afterReset, startMarker, destMarker, lineLayer, featuresLayer,
                 samplePoints, rawElements, simulateBtnDisabled, goCalls, goCount, samplesGen,
                 lastAnalysis, probe, analysis>>

\* what one call of the interval callback of handle h does in the current state
\* (part_000:374-419)
tickEffect_full(h) ==
  LET c == timers[h]
      den == tickDenominator(c)
      curLat == markerAt(c).lat
      curLng == markerAt(c).lon
      near == nearestSample_full(samplePoints, 1, curLat, curLng, den,
                                 [idx |-> -1, dist |-> Infinity])
      passing == proximityTrigger_full(near, lastTriggeredSample,
                                       adaptiveRadius_full(mapDistance(c.start, c.dest)),
                                       den)
      fires == passing /\ Len(samplePoints[near.idx + 1].hits) > 0
      who == <<samplesGen, near.idx>>
  IN [trigger |-> IF fires THEN "proximity" ELSE "none",
      idx |-> IF fires THEN near.idx ELSE -1,
      msg |-> IF fires THEN encounteredMessage(samplePoints[near.idx + 1]) ELSE "",
      refire |-> fires /\ who \in c.fired,
      sinceLast |-> IF fires /\ c.lastFire # -1 THEN c.step - c.lastFire ELSE -1,
      completes |-> finished_full(c.step + 1, c.steps),
      final |-> IF finished_full(c.step + 1, c.steps) THEN finalExtras ELSE {},
      closure |-> [c EXCEPT !.step = @ + 1,
                            !.ticks = @ + 1,
                            !.fired = IF fires THEN @ \cup {who} ELSE @,
                            !.lastFire = IF fires THEN c.step ELSE @,
                            !.lastProximity = IF fires THEN near.idx ELSE @]]

\* one call of the interval callback of handle h (part_000:374-420)
Tick_full(h) ==
  /\ variant = "full"
  /\ h \in DOMAIN timers
  /\ IF simulateMarker = Null
       THEN \* simulateMarker.setLatLng throws: the callback ends there
            UNCHANGED <<lastTriggeredSample, timers, simulateTimer>>
       ELSE LET e == tickEffect_full(h)
                stepped == [timers EXCEPT ![h] = e.closure]
            IN /\ lastTriggeredSample' = IF e.trigger = "proximity" THEN e.idx
                                         ELSE lastTriggeredSample
               /\ timers' = IF e.completes THEN clearInterval(stepped, simulateTimer)
                            ELSE stepped
               /\ simulateTimer' = IF e.completes THEN Null ELSE simulateTimer
  /\ UNCHANGED <<variant, world, afterReset, startMarker, destMarker, lineLayer, featuresLayer,
                 samplePoints, rawElements, simulateMarker, simulateBtnDisabled, handles, goCalls,
                 goCount, samplesGen, lastAnalysis, probe, analysis>>

\* resetAll (part_000:442-457); the marker is taken off the map but the variable
\* keeps it
ResetAll_full ==
  /\ variant = "full"
  /\ startMarker' = None
  /\ destMarker' = None
  /\ lineLayer' = None
  /\ featuresLayer' = <<>>
  /\ timers' = clearInterval(timers, simulateTimer)
  /\ simulateTimer' = Null
  /\ samplePoints' = <<>>
  /\ rawElements' = <<>>
  /\ simulateBtnDisabled' = TRUE
  /\ lastAnalysis' = "none"
  /\ afterReset' = TRUE
  /\ UNCHANGED <<variant, world, simulateMarker, lastTriggeredSample, handles, goCalls, goCount,
                 samplesGen, probe, analysis>>

-----------------------------------------------------------------------------
(* The page *)

\* the page after DOMContentLoaded (script.js:12-30, part_000:17-40); the handlers
\* only ever write the disabled property of the simulate button, none reads it
Init ==
  /\ variant \in {"script", "full"}
  /\ world \in {NearWorld, FarWorld, LongWorld, WideWorld}
  /\ startMarker = None
  /\ destMarker = None
  /\ lineLayer = None
  /\ featuresLayer = <<>>
  /\ samplePoints = <<>>
  /\ rawElements = <<>>
  /\ simulateMarker = Null
  /\ simulateTimer = Null
  /\ lastTriggeredSample = -1
  /\ simulateBtnDisabled = FALSE
  /\ timers = <<>>
  /\ handles = 0
  /\ goCalls = <<>>
  /\ goCount = 0
  /\ samplesGen = 0
  /\ lastAnalysis = "none"
  /\ afterReset = FALSE
  /\ probe = <<>>
  /\ analysis = <<>>

Next ==
  \/ \E startName \in StartNames : \E destName \in destNames(startName) : OnGo(startName, destName)
  \/ \E i \in 1..MaxGo, answer \in {"throw", "empty", "found"} : GeocodeStart(i, answer)
  \/ \E i \in 1..MaxGo, answer \in {"throw", "empty", "found"} : GeocodeDest(i, answer)
  \/ \E i \in 1..MaxGo, kind \in ResponseKinds : AnalysisDone(i, kind)
  \/ OnSimulate
  \/ \E h \in 1..MaxRuns : Tick(h)
  \/ ResetAll
  \/ \E startName \in StartNames : \E destName \in destNames(startName) :
       OnGo_full(startName, destName)
  \/ \E i \in 1..MaxGo, answer \in {"throw", "empty", "found"} : GeocodeStart_full(i, answer)
  \/ \E i \in 1..MaxGo, answer \in {"throw", "empty", "found"} : GeocodeDest_full(i, answer)
  \/ \E i \in 1..MaxGo, kind \in ResponseKinds : AnalysisDone_full(i, kind)
  \/ OnSimulate_full
  \/ \E h \in 1..MaxRuns : Tick_full(h)
  \/ ResetAll_full

Spec == Init /\ [][Next]_vars

-----------------------------------------------------------------------------
(* The analysis on its own: one analyzePath call per behaviour *)

\* how many elements a payload carries
MaxElements == 2

\* a peak exactly at the radius of a sample of the 2 km route (250 m in script.js,
\* 200 m in part_000), and one a metre farther out
PeakAt250 == [type |-> "node", tags |-> [natural |-> "peak"], lat |-> 300, lon |-> 900]
PeakAt251 == [type |-> "node", tags |-> [natural |-> "peak"], lat |-> 301, lon |-> 900]
PeakAt200 == [type |-> "node", tags |-> [natural |-> "peak"], lat |-> 250, lon |-> 957]
PeakAt201 == [type |-> "node", tags |-> [natural |-> "peak"], lat |-> 251, lon |-> 957]

\* a forest whose vertices are 5 km off the route
FarForest == [type |-> "way", tags |-> [landuse |-> "forest"],
              geometry |-> <<[lat |-> 5050, lon |-> 900], [lat |-> 5050, lon |-> 1000]>>]

\* a railway that comes without geometry
Rail == [type |-> "way", tags |-> [railway |-> "rail"]]

\* a peak on the equator, 50 m from the route
EquatorPeak == [type |-> "node", tags |-> [natural |-> "peak"], lat |-> 0, lon |-> 900]

\* a way without tags, on the first sample
Untagged == [type |-> "way", geometry |-> <<[lat |-> 50, lon |-> 500]>>]

\* a pond that carries a water tag and no natural tag, and a shop on a service road
\* (a highway and a building tag), both on the route
Pond == [type |-> "way", tags |-> [water |-> "pond"],
         geometry |-> <<[lat |-> 50, lon |-> 500]>>]
Shop == [type |-> "way", tags |-> [highway |-> "service", building |-> "yes"],
         geometry |-> <<[lat |-> 50, lon |-> 520]>>]

Library ==
  {Lake, PeakAt250, PeakAt251, PeakAt200, PeakAt201, FarForest, Rail, EquatorPeak, Untagged,
   Pond, Shop}

\* the element arrays of up to MaxElements elements
ElementLists == UNION {[1..n -> Library] : n \in 0..MaxElements}

\* what the awaited fetch and res.json() can produce
Payloads ==
  {[kind |-> "networkError"], [kind |-> "notJson"], [kind |-> "nullJson"], [kind |-> "json"]}
    \cup {[kind |-> "json", elements |-> es] : es \in ElementLists}

\* start and destination: 2 km eastwards, no distance at all, 3 m, and 2 km westwards
\* west of Greenwich and south of the equator
Routes ==
  { <<[lat |-> 50, lon |-> 100], [lat |-> 50, lon |-> 2100]>>,
    <<[lat |-> 50, lon |-> 2100], [lat |-> 50, lon |-> 2100]>>,
    <<[lat |-> 50, lon |-> 100], [lat |-> 50, lon |-> 103]>>,
    <<[lat |-> -50, lon |-> -100], [lat |-> -50, lon |-> -2100]>> }

\* the arguments onGo passes to analyzePath for a route (script.js:46-59,
\* part_000:57-68), and the outcome of the fetch
probeOf(route, response) ==
  LET meters == mapDistance(route[1], route[2])
  IN [start |-> route[1], dest |-> route[2], meters |-> meters,
      samples |-> IF variant = "script" THEN adaptiveSampleCount(meters)
                  ELSE adaptiveSampleCount_full(meters),
      radius |-> IF variant = "script" THEN adaptiveRadius(meters)
                 ELSE adaptiveRadius_full(meters),
      response |-> response]

AnalyzeInit ==
  /\ variant \in {"script", "full"}
  /\ world = NearWorld
  /\ startMarker = None
  /\ destMarker = None
  /\ lineLayer = None
  /\ featuresLayer = <<>>
  /\ samplePoints = <<>>
  /\ rawElements = <<>>
  /\ simulateMarker = Null
  /\ simulateTimer = Null
  /\ lastTriggeredSample = -1
  /\ simulateBtnDisabled = FALSE
  /\ timers = <<>>
  /\ handles = 0
  /\ goCalls = <<>>
  /\ goCount = 0
  /\ samplesGen = 0
  /\ lastAnalysis = "none"
  /\ afterReset = FALSE
  /\ \E route \in Routes, response \in Payloads : probe = <<probeOf(route, response)>>
  /\ analysis = <<>>

\* the call returns
Analyze ==
  /\ variant = "script"
  /\ analysis = <<>>
  /\ analysis' = <<analyzePath(probe[1].start, probe[1].dest, probe[1].samples,
                               probe[1].radius, probe[1].response)>>
  /\ UNCHANGED <<variant, world, afterReset, startMarker, destMarker, lineLayer, featuresLayer,
                 samplePoints, rawElements, simulateMarker, simulateTimer,
                 lastTriggeredSample, simulateBtnDisabled, timers, handles, goCalls,
                 goCount, samplesGen, lastAnalysis, probe>>

Analyze_full ==
  /\ variant = "full"
  /\ analysis = <<>>
  /\ analysis' = <<analyzePath_full(probe[1].start, probe[1].dest, probe[1].samples,
                                    probe[1].radius, probe[1].response)>>
  /\ UNCHANGED <<variant, world, afterReset, startMarker, destMarker, lineLayer, featuresLayer,
                 samplePoints, rawElements, simulateMarker, simulateTimer,
                 lastTriggeredSample, simulateBtnDisabled, timers, handles, goCalls,
                 goCount, samplesGen, lastAnalysis, probe>>

AnalyzeNext == Analyze \/ Analyze_full

AnalyzeSpec == AnalyzeInit /\ [][AnalyzeNext]_vars

-----------------------------------------------------------------------------
(* The sampling heuristics on their own: one pair of distances per behaviour *)

\* the distances run up to MaxGridSteps * 250 metres
MaxGridSteps == 44

\* the multiples of 250 m (where the sample counts change) and the metre after each
Distances == {k * 250 + o : k \in 0..MaxGridSteps, o \in {0, 1}}

HeuristicsInit ==
  /\ variant \in {"script", "full"}
  /\ world = NearWorld
  /\ startMarker = None
  /\ destMarker = None
  /\ lineLayer = None
  /\ featuresLayer = <<>>
  /\ samplePoints = <<>>
  /\ rawElements = <<>>
  /\ simulateMarker = Null
  /\ simulateTimer = Null
  /\ lastTriggeredSample = -1
  /\ simulateBtnDisabled = FALSE
  /\ timers = <<>>
  /\ handles = 0
  /\ goCalls = <<>>
  /\ goCount = 0
  /\ samplesGen = 0
  /\ lastAnalysis = "none"
  /\ afterReset = FALSE
  /\ \E d1, d2 \in Distances : d1 <= d2 /\ probe = <<[d1 |-> d1, d2 |-> d2]>>
  /\ analysis = <<>>

\* onGo computes the sample count and the radius of a route (script.js:55-56), here
\* for each of the two distances
AdaptiveSampling ==
  /\ variant = "script"
  /\ analysis = <<>>
  /\ analysis' = <<[samples1 |-> adaptiveSampleCount(probe[1].d1),
                    samples2 |-> adaptiveSampleCount(probe[1].d2),
                    radius1 |-> adaptiveRadius(probe[1].d1),
                    radius2 |-> adaptiveRadius(probe[1].d2)]>>
  /\ UNCHANGED <<variant, world, afterReset, startMarker, destMarker, lineLayer, featuresLayer,
                 samplePoints, rawElements, simulateMarker, simulateTimer,
                 lastTriggeredSample, simulateBtnDisabled, timers, handles, goCalls,
                 goCount, samplesGen, lastAnalysis, probe>>

\* the same in part_000 (part_000:65-66)
AdaptiveSampling_full ==
  /\ variant = "full"
  /\ analysis = <<>>
  /\ analysis' = <<[samples1 |-> adaptiveSampleCount_full(probe[1].d1),
                    samples2 |-> adaptiveSampleCount_full(probe[1].d2),
                    radius1 |-> adaptiveRadius_full(probe[1].d1),
                    radius2 |-> adaptiveRadius_full(probe[1].d2)]>>
  /\ UNCHANGED <<variant, world, afterReset, startMarker, destMarker, lineLayer, featuresLayer,
                 samplePoints, rawElements, simulateMarker, simulateTimer,
                 lastTriggeredSample, simulateBtnDisabled, timers, handles, goCalls,
                 goCount, samplesGen, lastAnalysis, probe>>

HeuristicsNext == AdaptiveSampling \/ AdaptiveSampling_full

HeuristicsSpec == HeuristicsInit /\ [][HeuristicsNext]_vars

-----------------------------------------------------------------------------
(* The messages of script.js on their own: one flags object per behaviour *)

Categories == {"water", "river", "forest", "park", "highway", "railway", "building", "peak"}

\* the flags objects: every combination of the categories and the error flag, the
\* flags of the catch branch of analyzePath, and the empty object
FlagObjects ==
  {[key \in Categories \cup {"error"} |-> key \in on] : on \in SUBSET (Categories \cup {"error"})}
    \cup {[error |-> TRUE], NoFlags}

\* the distances passed with them: 50 m, either side of 1 km, and 5 km
SummaryDistances == {50, 999, 1000, 5000}

\* the per-sample flags of a flags object: its categories, without the error flag
sampleFlagsOf(flags) == [key \in DOMAIN flags \ {"error"} |-> flags[key]]

\* the sample handed to sensibleMessageForSample: undefined, a sample without
\* flags, or a sample with its flags
sampleOf(shape, flags) ==
  IF shape = "undefined" THEN NoFlags
  ELSE IF shape = "noFlags" THEN [lat |-> 50, lon |-> 500]
  ELSE [lat |-> 50, lon |-> 500, flags |-> sampleFlagsOf(flags), hits |-> <<>>]

MessagesInit ==
  /\ variant = "script"
  /\ world = NearWorld
  /\ startMarker = None
  /\ destMarker = None
  /\ lineLayer = None
  /\ featuresLayer = <<>>
  /\ samplePoints = <<>>
  /\ rawElements = <<>>
  /\ simulateMarker = Null
  /\ simulateTimer = Null
  /\ lastTriggeredSample = -1
  /\ simulateBtnDisabled = FALSE
  /\ timers = <<>>
  /\ handles = 0
  /\ goCalls = <<>>
  /\ goCount = 0
  /\ samplesGen = 0
  /\ lastAnalysis = "none"
  /\ afterReset = FALSE
  /\ \E flags \in FlagObjects, meters \in SummaryDistances,
        shape \in {"undefined", "noFlags", "sample"} :
        probe = <<[flags |-> flags, meters |-> meters, shape |-> shape,
                   sample |-> sampleOf(shape, flags)]>>
  /\ analysis = <<>>

\* the two message functions are called (script.js:72, 312)
Compose ==
  /\ analysis = <<>>
  /\ analysis' = <<[summary |-> composeSummaryMessage(probe[1].flags, probe[1].meters),
                    message |-> sensibleMessageForSample(probe[1].sample)]>>
  /\ UNCHANGED <<variant, world, afterReset, startMarker, destMarker, lineLayer, featuresLayer,
                 samplePoints, rawElements, simulateMarker, simulateTimer,
                 lastTriggeredSample, simulateBtnDisabled, timers, handles, goCalls,
                 goCount, samplesGen, lastAnalysis, probe>>

MessagesNext == Compose

MessagesSpec == MessagesInit /\ [][MessagesNext]_vars

-----------------------------------------------------------------------------
(* Claims *)

\* C1: no tick of a playback executes after samplePoints has been replaced by the
\* result of an analysis that finished after the playback was started: onGo cancels
\* the running playback before it installs the new samples.
C1_NoTickOnReplacedSamples ==
  [][\A h \in 1..MaxRuns :
       (Tick(h) \/ Tick_full(h)) => timers[h].gen = samplesGen]_vars

\* C2: within one playback run no sample point has its message fired a second time,
\* whether the first and the second firing come from the proximity trigger or from a
\* scheduled step.
C2_NoSampleFiresTwice ==
  [][\A h \in 1..MaxRuns :
       /\ Tick(h) => ~tickEffect(h).refire
       /\ Tick_full(h) => ~tickEffect_full(h).refire]_vars

\* C3: within one playback run any two fired messages (proximity, scheduled or
\* completion) are at least 3000 ms apart, which is 120 ticks of 25 ms in script.js;
\* stated for the runs whose samples no later analysis has replaced.
C3_CooldownBetweenFirings ==
  [][\A h \in 1..MaxRuns :
       LET gapsOk(c, e) ==
             LET fires == e.trigger # "none"
             IN c.gen = samplesGen =>
                /\ e.sinceLast # -1 => e.sinceLast * c.intervalMs >= 3000
                /\ ~(e.completes /\ fires)    \* two messages on one tick
                /\ (e.completes /\ ~fires /\ c.lastFire # -1)
                     => (c.step - c.lastFire) * c.intervalMs >= 3000
       IN /\ Tick(h) => gapsOk(timers[h], tickEffect(h))
          /\ Tick_full(h) => gapsOk(timers[h], tickEffect_full(h))]_vars

\* C4: a playback run executes its ticks with step = 0, 1, ..., totalSteps in turn
\* (totalSteps at most 1200 in script.js); the tick with step = totalSteps, the
\* (totalSteps+1)-th, is the only one that completes the run: it shows the one
\* completion message, sets simulateTimer to null and ends the interval, and an
\* interval that has ended never runs again.
C4_RunCompletesAfterAllSteps ==
  [][/\ \A h \in 1..MaxRuns :
          LET stepOk(c, e) ==
                /\ c.ticks = c.step
                /\ c.step >= 0 /\ c.step <= c.steps
                /\ e.completes <=> c.step = c.steps
                /\ e.completes => /\ c.ticks + 1 = c.steps + 1
                                  /\ simulateTimer' = Null
                                  /\ h \notin DOMAIN timers'
                /\ ~e.completes => h \in DOMAIN timers'
          IN /\ Tick(h) => /\ stepOk(timers[h], tickEffect(h))
                           /\ timers[h].steps <= 1200
                           /\ tickEffect(h).final =
                                (IF timers[h].step = timers[h].steps
                                   THEN "You reached the destination! What a useless journey."
                                   ELSE "")
             /\ Tick_full(h) => /\ stepOk(timers[h], tickEffect_full(h))
                                /\ (tickEffect_full(h).final # {}) <=>
                                     (timers[h].step = timers[h].steps)
     /\ \A h \in 1..handles : h \notin DOMAIN timers => h \notin DOMAIN timers']_vars

\* C4 witness: in script.js simulateTimer is null only before the first playback and
\* after a completion; here a playback of the 16 km route (1200 steps) has completed.
C4_Witness ==
  /\ variant = "script"
  /\ world.name = "far"
  /\ handles >= 1
  /\ simulateTimer = Null
  /\ timers = <<>>
  /\ lineLayer # None /\ mapDistance(lineLayer[1], lineLayer[2]) = 16000

\* C5: resetAll, and an onSimulate that is accepted, end every interval that was
\* live, and an interval that has ended never runs again: no tick of the previous
\* playback executes after them.
C5_CancellationIsFinal ==
  [][/\ (ResetAll \/ ResetAll_full) => timers' = <<>>
     /\ ((OnSimulate \/ OnSimulate_full) /\ handles' # handles)
          => DOMAIN timers' = {handles'}
     /\ \A h \in 1..handles : h \notin DOMAIN timers => h \notin DOMAIN timers']_vars

\* C5 witness: resetAll of script.js has cancelled a playback that was running (it
\* leaves the handle in simulateTimer), and no interval is live.
C5_Witness ==
  /\ variant = "script"
  /\ simulateTimer # Null
  /\ startMarker = None /\ lineLayer = None
  /\ timers = <<>>

\* C6: once an analysis has ended in a failed feature fetch, an onSimulate (with a
\* route drawn) is rejected with the no-samples failure and starts no timer,
\* whatever happened before, an earlier successful analysis included.
C6_NoPlaybackAfterFailedAnalysis ==
  [][(lastAnalysis = "error" /\ lineLayer # None) =>
       /\ OnSimulate => /\ onSimulateCheck = "No samples - run analysis first."
                        /\ timers' = timers /\ handles' = handles
       /\ OnSimulate_full => /\ onSimulateCheck_full = "No sample data - run analysis first."
                             /\ timers' = timers /\ handles' = handles]_vars

\* C7: when the fetch throws or its payload cannot be parsed, what analyzePath
\* returns is a result with the error flag set, no samples, no raw elements and no
\* category flag set.
C7_FetchFailureYieldsErrorResult ==
  (analysis # <<>> /\ probe[1].response.kind \in {"networkError", "notJson"}) =>
    LET r == analysis[1]
    IN /\ "error" \in DOMAIN r.flags /\ r.flags.error
       /\ r.samples = <<>>
       /\ r.rawElements = <<>>
       /\ \A X \in DOMAIN r.flags \ {"error"} : ~r.flags[X]

\* C7 witness: analyzePath has returned for a payload that is not JSON.
C7_Witness ==
  /\ analysis # <<>>
  /\ probe[1].response.kind = "notJson"
  /\ Flag(analysis[1].flags, "error")

\* C8: in every successful analysis result, for every category X, the global flag X
\* is true exactly when some returned sample has its flag X true.
C8_GlobalFlagIffSomeSampleFlag ==
  (analysis # <<>> /\ ~Flag(analysis[1].flags, "error")) =>
    LET r == analysis[1]
    IN \A X \in DOMAIN r.flags \ {"error"} :
         r.flags[X] <=> \E i \in DOMAIN r.samples : r.samples[i].flags[X]

\* C9: in every successful analysis result, a returned feature is among the hits of
\* a sample exactly when one of the feature's vertices (the geometry of a way, the
\* own coordinate of a node) is at most the radius away from the sample.
C9_HitIffWithinRadius ==
  (analysis # <<>> /\ ~Flag(analysis[1].flags, "error")) =>
    LET r == analysis[1]
        K == IF variant = "script" THEN RADIUS_DIVISOR ELSE RADIUS_DIVISOR_full
        vertices(el) ==
          IF "geometry" \in DOMAIN el /\ Len(el.geometry) > 0
            THEN {el.geometry[k] : k \in DOMAIN el.geometry}
          ELSE IF el.type = "node" THEN {[lat |-> el.lat, lon |-> el.lon]}
          ELSE {}
        within(p, el) ==
          \E v \in vertices(el) :
            haversineMeters(p.lat, p.lon, v.lat, v.lon) * K <= probe[1].radius
        hit(p, k) ==
          \E j \in DOMAIN p.hits :
            r.rawElements[k] = (IF variant = "script" THEN p.hits[j].el
                                ELSE p.hits[j].element)
    IN \A i \in DOMAIN r.samples, k \in DOMAIN r.rawElements :
         hit(r.samples[i], k) <=> within(r.samples[i], r.rawElements[k])

\* C10: the proximity trigger fires only for a sample that has some category flag
\* set (whose message is not the default one), and only such a sample is recorded as
\* last fired.
C10_ProximityOnlyForInterestingSamples ==
  [][\A h \in 1..MaxRuns :
       LET interesting(idx) ==
             /\ idx + 1 \in DOMAIN samplePoints
             /\ \E X \in DOMAIN samplePoints[idx + 1].flags : samplePoints[idx + 1].flags[X]
           ok(e) ==
             /\ e.trigger = "proximity" => interesting(e.idx) /\ e.msg # DefaultMessage
             /\ lastTriggeredSample' # lastTriggeredSample => interesting(lastTriggeredSample')
       IN /\ Tick(h) => ok(tickEffect(h))
          /\ Tick_full(h) => ok(tickEffect_full(h))]_vars

\* C11: script.js pre-computes count = clamp(ceil(distanceKm / 10), 3, 6) scheduled
\* steps, and a run that is not cancelled fires a message on the tick of every one
\* of them, whatever the proximity trigger does; stated for the runs whose samples
\* no later analysis has replaced.
C11_MessageAtEveryScheduledStep ==
  [][\A h \in 1..MaxRuns :
       (Tick(h) /\ simulateMarker # Null) =>
         LET c == timers[h]
             perTenKm == CeilDiv(c.meters, 10000)
             count == IF perTenKm < 3 THEN 3 ELSE IF perTenKm > 6 THEN 6 ELSE perTenKm
             scheduled == \E k \in DOMAIN c.triggerSteps : c.step = c.triggerSteps[k]
         IN /\ Len(c.triggerSteps) = count
            /\ (c.gen = samplesGen /\ scheduled) => tickEffect(h).trigger # "none"]_vars

\* C12: an onSimulate called when no route line is drawn, or when samplePoints is
\* empty, reports the failure and changes nothing: no timer is started, no marker
\* is created, and simulateTimer, lastTriggeredSample and the intervals that are
\* live stay as they were; a playback starts only when both preconditions hold.
C12_RejectedSimulateChangesNothing ==
  [][(OnSimulate \/ OnSimulate_full) =>
       LET toast == IF variant = "script" THEN onSimulateCheck ELSE onSimulateCheck_full
       IN IF lineLayer = None \/ Len(samplePoints) = 0
            THEN /\ toast # ""
                 /\ timers' = timers /\ handles' = handles
                 /\ simulateMarker' = simulateMarker
                 /\ simulateTimer' = simulateTimer
                 /\ lastTriggeredSample' = lastTriggeredSample
            ELSE toast = "" /\ handles' = handles + 1]_vars

\* C12 witness: part_000 with a playback running, a route drawn and no samples (a
\* later analysis failed): the state in which onSimulate refuses and the running
\* playback goes on.
C12_Witness ==
  /\ variant = "full"
  /\ lineLayer # None
  /\ samplePoints = <<>>
  /\ simulateTimer \in DOMAIN timers
  /\ onSimulateCheck_full = "No sample data - run analysis first."

\* C13 (as stated): within one playback run the step counter never decreases and
\* lies in [0, totalSteps] in every state of the run, the state after the final
\* tick included.
C13_StepWithinTotalSteps ==
  [][\A h \in 1..MaxRuns :
       LET inRange(c, e) ==
             /\ e.closure.step >= c.step
             /\ c.step \in 0..c.steps
             /\ e.closure.step \in 0..c.steps
       IN /\ (Tick(h) /\ simulateMarker # Null) => inRange(timers[h], tickEffect(h))
          /\ (Tick_full(h) /\ simulateMarker # Null)
               => inRange(timers[h], tickEffect_full(h))]_vars

\* C13 (amended): the step counter grows by one per tick; every tick runs with the
\* counter in [0, totalSteps], and so does every state in which the run is live;
\* the final tick, and only it, leaves the counter at totalSteps + 1 and ends the
\* run.
C13_StepWithinTotalStepsWhileLive ==
  [][/\ \A h \in 1..MaxRuns :
          LET inRange(c, e) ==
                /\ e.closure.step = c.step + 1
                /\ c.step \in 0..c.steps
                /\ e.closure.step \in 0..(c.steps + 1)
                /\ (e.closure.step = c.steps + 1) <=> e.completes
                /\ e.completes => h \notin DOMAIN timers'
          IN /\ (Tick(h) /\ simulateMarker # Null) => inRange(timers[h], tickEffect(h))
             /\ (Tick_full(h) /\ simulateMarker # Null)
                  => inRange(timers[h], tickEffect_full(h))
     /\ \A h \in DOMAIN timers' : timers'[h].step \in 0..timers'[h].steps]_vars

\* C13 witness: part_000 after a playback of the 16 km route has run all its 1000
\* steps (one onGo only: the route is still drawn, so nothing has been reset).
C13_Witness ==
  /\ variant = "full"
  /\ world.name = "far"
  /\ lineLayer # None
  /\ handles >= 1
  /\ timers = <<>>
  /\ simulateTimer = Null

\* C14: in every successful analysis result the sample points differ from start and
\* from end, are pairwise distinct, and lie along the segment in the order of their
\* index (a later sample is strictly farther along from start to end).
C14_SamplesDistinctAndOrdered ==
  (analysis # <<>> /\ ~Flag(analysis[1].flags, "error")) =>
    LET pts == analysis[1].samples
        start == probe[1].start
        dest == probe[1].dest
        at(i) == [lat |-> pts[i].lat, lon |-> pts[i].lon]
        along(i) == (pts[i].lat - start.lat) * (dest.lat - start.lat)
                      + (pts[i].lon - start.lon) * (dest.lon - start.lon)
    IN /\ Len(pts) = probe[1].samples
       /\ \A i \in DOMAIN pts : at(i) # start /\ at(i) # dest
       /\ \A i, j \in DOMAIN pts : i < j => at(i) # at(j) /\ along(i) < along(j)

\* C15: for every distance, adaptiveSampleCount lies in [MIN_SAMPLES, MAX_SAMPLES]
\* and is the least integer not below km * density (2 per km in script.js, 3 in
\* part_000) clamped to that range; and of two distances the larger one never gets
\* the smaller count.
C15_SampleCountClampedAndMonotone ==
  analysis # <<>> =>
    LET lo == IF variant = "script" THEN MIN_SAMPLES ELSE MIN_SAMPLES_full
        hi == IF variant = "script" THEN MAX_SAMPLES ELSE MAX_SAMPLES_full
        density == IF variant = "script" THEN 2 ELSE 3
        ceilOf(d) == CHOOSE n \in 0..(d * density) :
                       n * 1000 >= d * density /\ (n - 1) * 1000 < d * density
        clamp(n) == Min(Max(n, lo), hi)
        r == analysis[1]
    IN /\ r.samples1 \in lo..hi /\ r.samples2 \in lo..hi
       /\ r.samples1 = clamp(ceilOf(probe[1].d1))
       /\ r.samples2 = clamp(ceilOf(probe[1].d2))
       /\ r.samples1 <= r.samples2

\* C15 witness: script.js has computed the counts of 250 m (the minimum, 4) and of
\* 2251 m (5: the count rounds up).
C15_Witness ==
  /\ variant = "script"
  /\ analysis # <<>>
  /\ probe[1].d1 = 250 /\ analysis[1].samples1 = 4
  /\ probe[1].d2 = 2251 /\ analysis[1].samples2 = 5

\* C16: for every distance, adaptiveRadius lies in [MIN_RADIUS, MAX_RADIUS] and is
\* distance / K clamped to that range, K being 8 in script.js and 10 in part_000
\* (radii are held in units of 1/K metre).
C16_RadiusClamped ==
  analysis # <<>> =>
    LET K == IF variant = "script" THEN 8 ELSE 10
        lo == IF variant = "script" THEN MIN_RADIUS ELSE MIN_RADIUS_full
        hi == IF variant = "script" THEN MAX_RADIUS ELSE MAX_RADIUS_full
        clamped(d) == IF d < lo * K THEN lo * K ELSE IF d > hi * K THEN hi * K ELSE d
        r == analysis[1]
    IN /\ r.radius1 >= lo * K /\ r.radius1 <= hi * K
       /\ r.radius2 >= lo * K /\ r.radius2 <= hi * K
       /\ r.radius1 = clamped(probe[1].d1)
       /\ r.radius2 = clamped(probe[1].d2)

\* C16 witness: part_000 has computed the radius of 1000 m (the minimum, 120 m) and
\* of 11 km (the maximum, 1000 m).
C16_Witness ==
  /\ variant = "full"
  /\ analysis # <<>>
  /\ probe[1].d1 = 1000 /\ analysis[1].radius1 = 120 * 10
  /\ probe[1].d2 = 11000 /\ analysis[1].radius2 = 1000 * 10

\* C17: composeSummaryMessage returns a message for every flags object and
\* distance, that of the first rule that matches in the order error, water or
\* river, peak, forest, building, then short hop below 1 km and all-clear from 1 km
\* on; the park, highway and railway flags never change the result; all flags
\* false at 50 m gives the short-hop message.
C17_SummaryFirstMatchWins ==
  analysis # <<>> =>
    LET f == probe[1].flags
        m == probe[1].meters
        msg == analysis[1].summary
        on(key) == key \in DOMAIN f /\ f[key]
        watery == on("water") \/ on("river")
        without == [key \in DOMAIN f |->
                      IF key \in {"park", "highway", "railway"} THEN FALSE ELSE f[key]]
    IN /\ msg \in {"Overpass grumbled - analysis failed.",
                   "Route appears watery - you might need a boat. You go swim!",
                   "Mountains detected - hope you like climbing.",
                   "There's forest along the way - mind the wildlife.",
                   "Urban area ahead - honk responsibly.",
                   "Short hop - slippers recommended.",
                   "All clearish - still useless, though."}
       /\ (msg = "Overpass grumbled - analysis failed.") <=> on("error")
       /\ (msg = "Route appears watery - you might need a boat. You go swim!")
            <=> (~on("error") /\ watery)
       /\ (msg = "Mountains detected - hope you like climbing.")
            <=> (~on("error") /\ ~watery /\ on("peak"))
       /\ (msg = "There's forest along the way - mind the wildlife.")
            <=> (~on("error") /\ ~watery /\ ~on("peak") /\ on("forest"))
       /\ (msg = "Urban area ahead - honk responsibly.")
            <=> (~on("error") /\ ~watery /\ ~on("peak") /\ ~on("forest") /\ on("building"))
       /\ (msg = "Short hop - slippers recommended.")
            <=> (~on("error") /\ ~watery /\ ~on("peak") /\ ~on("forest") /\ ~on("building")
                 /\ m < 1000)
       /\ msg = composeSummaryMessage(without, m)
       /\ ((\A key \in DOMAIN f : ~f[key]) /\ m = 50)
            => msg = "Short hop - slippers recommended."

\* C17 witness: the summary of a route of 50 m with every flag false has been
\* composed, and it is the short-hop message.
C17_Witness ==
  /\ analysis # <<>>
  /\ probe[1].meters = 50
  /\ DOMAIN probe[1].flags = Categories \cup {"error"}
  /\ \A key \in DOMAIN probe[1].flags : ~probe[1].flags[key]
  /\ analysis[1].summary = "Short hop - slippers recommended."

\* C18: sensibleMessageForSample returns a message for every sample, a missing
\* sample and a sample without flags included, that of the first rule that matches
\* in the order water and river together, water, river, peak, forest, park,
\* highway, railway, building, default; the default message is returned exactly
\* when none of the eight flags is true.
C18_SampleMessageFirstMatchWins ==
  analysis # <<>> =>
    LET sample == probe[1].sample
        msg == analysis[1].message
        on(key) == /\ "flags" \in DOMAIN sample
                   /\ key \in DOMAIN sample.flags
                   /\ sample.flags[key]
        order == <<"water", "river", "peak", "forest", "park", "highway", "railway",
                   "building">>
        text == [water |-> "Water nearby - maybe a boat ride?",
                 river |-> "A river flows here - maybe a bridge?",
                 peak |-> "Mountains ahead - get ready for the climb.",
                 forest |-> "Forest surrounds you - watch for wildlife.",
                 park |-> "A peaceful park - perfect for a useless picnic.",
                 highway |-> "Busy highway - cross carefully!",
                 railway |-> "Railway tracks - stay alert and don't get caught.",
                 building |-> "Passing through buildings - urban vibes."]
        both == "You're crossing water and river - watch your step or swim!"
        none == "Just empty air and useless road."
        first(k) == on(order[k]) /\ \A j \in 1..(k - 1) : ~on(order[j])
    IN /\ msg \in {both, none} \cup {text[order[k]] : k \in 1..8}
       /\ (msg = both) <=> (on("water") /\ on("river"))
       /\ \A k \in 1..8 :
            (msg = text[order[k]]) <=> (first(k) /\ ~(on("water") /\ on("river")))
       /\ (msg = none) <=> (\A k \in 1..8 : ~on(order[k]))

\* C18 witness: the message of a sample with the water, river and peak flags has
\* been composed, and it is the one for water and river together.
C18_Witness ==
  /\ analysis # <<>>
  /\ probe[1].shape = "sample"
  /\ DOMAIN probe[1].sample.flags = Categories
  /\ \A key \in Categories : probe[1].sample.flags[key] <=> key \in {"water", "river", "peak"}
  /\ analysis[1].message = "You're crossing water and river - watch your step or swim!"

\* C19: a sample carries exactly the categories that the classifier table gives to
\* its hits, every matching one: water for natural = "water" or a water tag, river
\* for a waterway tag, forest for landuse = "forest", park for leisure = "park",
\* highway, railway and building for a tag of that name, peak for natural = "peak";
\* a hit that matches no row sets nothing.
C19_HitsSetClassifierCategories ==
  (analysis # <<>> /\ ~Flag(analysis[1].flags, "error")) =>
    LET r == analysis[1]
        has(t, key) == key \in DOMAIN t
        is(t, key, value) == key \in DOMAIN t /\ t[key] = value
        classify(t) ==
          {X \in Categories :
             \/ X = "water" /\ (is(t, "natural", "water") \/ has(t, "water"))
             \/ X = "river" /\ has(t, "waterway")
             \/ X = "forest" /\ is(t, "landuse", "forest")
             \/ X = "park" /\ is(t, "leisure", "park")
             \/ X = "highway" /\ has(t, "highway")
             \/ X = "railway" /\ has(t, "railway")
             \/ X = "building" /\ has(t, "building")
             \/ X = "peak" /\ is(t, "natural", "peak")}
        elementOf(h) == IF variant = "script" THEN h.el ELSE h.element
        tagsOfHit(h) == IF "tags" \in DOMAIN elementOf(h) THEN elementOf(h).tags ELSE NoTags
    IN \A i \in DOMAIN r.samples :
         \A X \in Categories :
           Flag(r.samples[i].flags, X)
             <=> \E j \in DOMAIN r.samples[i].hits : X \in classify(tagsOfHit(r.samples[i].hits[j]))

\* C20: an onGo call that is rejected for a missing start or destination, or in
\* which a place name is not resolved, changes nothing on the page: the markers,
\* the route line, the features, samplePoints, the raw elements, the playback
\* timer and its interval, lastTriggeredSample and the disabled state of the
\* simulate button are as before; a call gets as far as plotting only when both
\* names have been resolved.
C20_RejectedGoChangesNothing ==
  [][LET page == <<startMarker, destMarker, lineLayer, featuresLayer, samplePoints,
                   rawElements, simulateMarker, simulateTimer, timers,
                   lastTriggeredSample, simulateBtnDisabled>>
         page1 == <<startMarker', destMarker', lineLayer', featuresLayer', samplePoints',
                    rawElements', simulateMarker', simulateTimer', timers',
                    lastTriggeredSample', simulateBtnDisabled'>>
     IN /\ \A startName \in StartNames, destName \in DestNames :
             (OnGo(startName, destName) \/ OnGo_full(startName, destName)) =>
               /\ page1 = page
               /\ (startName = "" \/ destName = "") => goCalls' = goCalls
        /\ \A i \in 1..MaxGo, answer \in {"throw", "empty", "found"} :
             /\ (GeocodeStart(i, answer) \/ GeocodeStart_full(i, answer)) => page1 = page
             /\ (GeocodeDest(i, answer) \/ GeocodeDest_full(i, answer)) =>
                  IF answer # "found" \/ goCalls[i].start = None
                    THEN page1 = page /\ Len(goCalls') = Len(goCalls) - 1
                    ELSE Len(goCalls') = Len(goCalls) /\ goCalls'[i].pc = "analyze"]_vars

\* C20 witness: on the 76 km map the one onGo call has come and gone (rejected, or
\* a name was not resolved), and the page is as it was loaded: nothing is drawn and
\* the simulate button has not been touched.
C20_Witness ==
  /\ world.name = "long"
  /\ goCount = 1
  /\ goCalls = <<>>
  /\ lineLayer = None /\ startMarker = None /\ destMarker = None
  /\ samplePoints = <<>>
  /\ ~simulateBtnDisabled

\* C21: a node is associated through its own coordinate, whatever the coordinate,
\* latitude 0 and longitude 0 included: in every successful analysis result a
\* returned node is among the hits of a sample exactly when the node's coordinate is
\* at most the radius away from the sample.
C21_NodeHitIffWithinRadius ==
  (analysis # <<>> /\ ~Flag(analysis[1].flags, "error")) =>
    LET r == analysis[1]
        K == IF variant = "script" THEN RADIUS_DIVISOR ELSE RADIUS_DIVISOR_full
        isNode(el) == el.type = "node" /\ "geometry" \notin DOMAIN el
        near(p, el) == haversineMeters(p.lat, p.lon, el.lat, el.lon) * K <= probe[1].radius
        hitOf(h) == IF variant = "script" THEN h.el ELSE h.element
    IN \A i \in DOMAIN r.samples, k \in DOMAIN r.rawElements :
         isNode(r.rawElements[k]) =>
           ((\E j \in DOMAIN r.samples[i].hits : hitOf(r.samples[i].hits[j]) = r.rawElements[k])
              <=> near(r.samples[i], r.rawElements[k]))

\* C22: in every state in which onSimulate would be accepted (a line is drawn and
\* samplePoints is not empty), samplePoints are the sample points of the drawn
\* line: the interpolation of its start/end pair, in the number that its length
\* gives.
C22_SamplesBelongToDrawnLine ==
  (lineLayer # None /\ Len(samplePoints) > 0) =>
    LET start == lineLayer[1]
        dest == lineLayer[2]
        meters == mapDistance(start, dest)
        count == IF variant = "script" THEN adaptiveSampleCount(meters)
                 ELSE adaptiveSampleCount_full(meters)
        expected == IF variant = "script" THEN samplePts(start, dest, count)
                    ELSE samplePts_full(start, dest, count)
    IN /\ Len(samplePoints) = count
       /\ \A i \in DOMAIN samplePoints :
            /\ samplePoints[i].lat = expected[i].lat
            /\ samplePoints[i].lon = expected[i].lon

\* C23: after resetAll, and for as long as onGo has not been invoked again,
\* samplePoints and the raw elements are empty, no line is drawn and the simulate
\* button is disabled, whatever an onGo that was invoked before the reset does when
\* its geocoding or its feature fetch comes back.
C23_ResetIsDurable ==
  afterReset =>
    /\ samplePoints = <<>>
    /\ rawElements = <<>>
    /\ lineLayer = None
    /\ simulateBtnDisabled

\* C24: at most one interval callback can still fire at any time, and whenever one
\* can, simulateTimer holds its handle.
C24_AtMostOneLiveTimer ==
  /\ Cardinality(DOMAIN timers) <= 1
  /\ \A h \in DOMAIN timers : simulateTimer = h

\* C24 witness: a second playback has been started while the first was running;
\* the first interval is gone and the second is live under simulateTimer.
C24_Witness ==
  /\ handles = 2
  /\ DOMAIN timers = {2}
  /\ simulateTimer = 2
  /\ timers[2].step > 0

\* the message a playback shows for a sample when it fires it (script.js:305-312,
\* part_000:391-404)
firedMessage(sample) ==
  IF variant = "script" THEN sensibleMessageForSample(sample) ELSE encounteredMessage(sample)

\* a sample with something to say: its message is not the default one in script.js,
\* it has hits in part_000 (the only samples part_000 fires)
hasOwnMessage(sample) ==
  IF variant = "script"
    THEN sensibleMessageForSample(sample) # "Enjoy your useless journey!"
    ELSE Len(sample.hits) > 0

\* the run of handle h completes on the samples it started on, and the message of
\* every sample with something to say has been shown during it
allMessagesFired(h, e) ==
  \A i \in DOMAIN samplePoints :
    hasOwnMessage(samplePoints[i])
      => \E w \in e.closure.fired :
           /\ w[1] = samplesGen
           /\ firedMessage(samplePoints[w[2] + 1]) = firedMessage(samplePoints[i])

C26_ProximityIndicesIncrease ==
  [][\A h \in DOMAIN timers :
       LET e == IF variant = "script" THEN tickEffect(h) ELSE tickEffect_full(h)
           stepped == IF variant = "script" THEN Tick(h) ELSE Tick_full(h)
       IN (simulateMarker # Null /\ stepped /\ timers[h].gen = samplesGen
             /\ e.trigger = "proximity")
            => e.idx > timers[h].lastProximity]_vars

\* C27: at every tick of a playback t = step / steps lies in [0, 1] (no tick runs
\* with step > steps); the first tick of a run puts the marker exactly on the start
\* of the route, and the last tick, the one that completes the run, runs with
\* step = steps and puts it exactly on the destination
C27_InterpolationStaysOnRoute ==
  [][\A h \in DOMAIN timers :
       LET c == timers[h]
           e == IF variant = "script" THEN tickEffect(h) ELSE tickEffect_full(h)
           stepped == IF variant = "script" THEN Tick(h) ELSE Tick_full(h)
           den == tickDenominator(c)
       IN (simulateMarker # Null /\ stepped)
            => /\ 0 <= c.step /\ c.step <= c.steps
               /\ c.ticks = 0 => /\ c.step = 0
                                 /\ markerAt(c) = [lat |-> c.start.lat * den,
                                                   lon |-> c.start.lon * den]
               /\ e.completes => /\ c.step = c.steps
                                 /\ markerAt(c) = [lat |-> c.dest.lat * den,
                                                   lon |-> c.dest.lon * den]]_vars

\* a run of a route of 2 km is about to take its last tick, every earlier one taken
C27_Witness ==
  \E h \in DOMAIN timers :
    /\ timers[h].meters = 2000
    /\ timers[h].step = timers[h].steps
    /\ timers[h].ticks = timers[h].steps
    /\ simulateMarker # Null

\* C28: every accepted onSimulate starts the playback from a clean state: the new
\* run is at step 0 with its scheduled index at 0, the last-fired sample index is
\* -1, the interval of the previous run is cleared (the new one is the only live
\* one) and the previous marker has given way to a new one
C28_AcceptedSimulateStartsClean ==
  [][LET accepted == IF variant = "script" THEN OnSimulate /\ onSimulateCheck = ""
                     ELSE OnSimulate_full /\ onSimulateCheck_full = ""
     IN accepted
          => /\ handles' = handles + 1
             /\ DOMAIN timers' = {handles'}
             /\ simulateTimer' = handles'
             /\ timers'[handles'].step = 0
             /\ variant = "script" => timers'[handles'].nextTriggerIndex = 0
             /\ lastTriggeredSample' = -1
             /\ simulateMarker' = handles'
             /\ simulateMarker' # simulateMarker]_vars

\* a second playback has just started over a first one
C28_Witness ==
  /\ handles = 2
  /\ DOMAIN timers = {2}
  /\ timers[2].ticks = 0
  /\ timers[2].step = 0
  /\ simulateMarker = 2
  /\ lastTriggeredSample = -1

\* C29: in every successful analysis result, for every sample and every category X
\* the sample's flag X is true exactly when its hits contain a feature that the
\* classifier table puts in X; every recorded hit distance is at most the radius;
\* the hits of a sample are in the order in which the features were returned; and
\* every flag that is true on a sample is true in the global flags
C29_SampleFlagsMatchHits ==
  (analysis # <<>> /\ ~Flag(analysis[1].flags, "error")) =>
    LET r == analysis[1]
        K == IF variant = "script" THEN RADIUS_DIVISOR ELSE RADIUS_DIVISOR_full
        has(t, key) == key \in DOMAIN t
        is(t, key, value) == key \in DOMAIN t /\ t[key] = value
        inCategory(t, X) ==
          \/ X = "water" /\ (is(t, "natural", "water") \/ has(t, "water"))
          \/ X = "river" /\ has(t, "waterway")
          \/ X = "forest" /\ is(t, "landuse", "forest")
          \/ X = "park" /\ is(t, "leisure", "park")
          \/ X = "highway" /\ has(t, "highway")
          \/ X = "railway" /\ has(t, "railway")
          \/ X = "building" /\ has(t, "building")
          \/ X = "peak" /\ is(t, "natural", "peak")
        elementOf(h) == IF variant = "script" THEN h.el ELSE h.element
        tagsOfHit(h) == IF "tags" \in DOMAIN elementOf(h) THEN elementOf(h).tags ELSE NoTags
        hitElements(p) == [j \in DOMAIN p.hits |-> elementOf(p.hits[j])]
        isHitOf(p) == [el \in Library |-> \E j \in DOMAIN p.hits : elementOf(p.hits[j]) = el]
    IN \A i \in DOMAIN r.samples :
         LET p == r.samples[i]
             among(el) == isHitOf(p)[el]
         IN /\ \A X \in Categories :
                 /\ Flag(p.flags, X)
                      <=> \E j \in DOMAIN p.hits : inCategory(tagsOfHit(p.hits[j]), X)
                 /\ Flag(p.flags, X) => Flag(r.flags, X)
            /\ \A j \in DOMAIN p.hits : p.hits[j].dist * K <= probe[1].radius
            /\ hitElements(p) = SelectSeq(r.rawElements, among)

-----------------------------------------------------------------------------
(* The schedule of the timed messages on its own: one route length per behaviour *)

\* the routes run metre by metre up to MaxShortRoute metres (the run takes its full
\* 1200 steps from 15 km on), and beyond that the lengths at which msgCount changes
MaxShortRoute == 15100

RouteLengths ==
  (0..MaxShortRoute)
    \cup {29999, 30000, 30001, 40000, 40001, 50000, 50001, 60000, 76000, 3600000}

ScheduleInit ==
  /\ variant = "script"
  /\ world = NearWorld
  /\ startMarker = None
  /\ destMarker = None
  /\ lineLayer = None
  /\ featuresLayer = <<>>
  /\ samplePoints = <<>>
  /\ rawElements = <<>>
  /\ simulateMarker = Null
  /\ simulateTimer = Null
  /\ lastTriggeredSample = -1
  /\ simulateBtnDisabled = FALSE
  /\ timers = <<>>
  /\ handles = 0
  /\ goCalls = <<>>
  /\ goCount = 0
  /\ samplesGen = 0
  /\ lastAnalysis = "none"
  /\ afterReset = FALSE
  /\ \E meters \in RouteLengths : probe = <<[meters |-> meters]>>
  /\ analysis = <<>>

\* onSimulate computes the steps of the run, the number of timed messages and their
\* steps (script.js:272-287)
Schedule ==
  /\ analysis = <<>>
  /\ LET meters == probe[1].meters
         steps == stepsOf(durationMsOf(meters))
         msgCount == msgCountOf(meters)
     IN analysis' = <<[steps |-> steps, msgCount |-> msgCount,
                       triggerSteps |-> triggerStepsOf(steps, msgCount)]>>
  /\ UNCHANGED <<variant, world, afterReset, startMarker, destMarker, lineLayer, featuresLayer,
                 samplePoints, rawElements, simulateMarker, simulateTimer,
                 lastTriggeredSample, simulateBtnDisabled, timers, handles, goCalls,
                 goCount, samplesGen, lastAnalysis, probe>>

ScheduleNext == Schedule

ScheduleSpec == ScheduleInit /\ [][ScheduleNext]_vars

\* C30: for every route length the run of script.js has between 160 and 1200 steps
\* and between 3 and 6 timed messages, and their scheduled steps are strictly
\* increasing and all lie in 1..steps-1: no two share a tick, and none falls on the
\* first tick or on the last
C30_ScheduledStepsDistinctAndInside ==
  analysis # <<>> =>
    LET r == analysis[1]
    IN /\ 3 <= r.msgCount /\ r.msgCount <= 6
       /\ 160 <= r.steps /\ r.steps <= 1200
       /\ Len(r.triggerSteps) = r.msgCount
       /\ \A i \in 1..(r.msgCount - 1) : r.triggerSteps[i] < r.triggerSteps[i + 1]
       /\ \A i \in 1..r.msgCount : 1 <= r.triggerSteps[i] /\ r.triggerSteps[i] <= r.steps - 1

\* the schedule of a route of 50 km: five messages over 1200 steps
C30_Witness ==
  /\ analysis # <<>>
  /\ probe[1].meters = 50000
  /\ analysis[1].msgCount = 5
  /\ analysis[1].triggerSteps = <<200, 400, 600, 800, 1000>>

====
